---- MODULE Spec2Model ----
(***************************************************************************)
(* The job-queue driven grading pipeline: GradingProcess.run drives        *)
(* CacheService, ChatService, DriveService and SheetsService, one pending  *)
(* sheet row at a time.  Remote calls answer nondeterministically.         *)
(***************************************************************************)
EXTENDS Integers, Sequences, FiniteSets, TLC

VARIABLES
    pc,            \* position of GradingProcess.run / process_single_case
    fundamentos,   \* state of Config.FUNDAMENTOS_DIR: "absent", "empty", "ok"
    cache,         \* cache_obj: "none" or "created"
    chat_session,  \* ChatService.chat_session is set
    sheet,         \* the worksheet: row index -> cells
    sheet0,        \* the worksheet as it was when the run began
    scanned,       \* get_all_values has been called
    pending_rows,  \* the list returned by get_pending_rows
    cur,           \* index in pending_rows of the row being processed
    roleIdx,       \* index in docs_to_download
    patient_pdfs,  \* paths of the PDFs written to temp_dir, in order
    temp_dirs,     \* the temp_dirs that exist, each with its files
    attempt,       \* tenacity attempt_number of the outer wrapped call
    waits,         \* sleeps made by the outer wrapped call
    meta_attempt,  \* tenacity attempt_number of get_file_metadata
    meta_waits,    \* sleeps made by get_file_metadata
    step,          \* index in flow_steps
    message,       \* message_parts of the current step
    send_i,        \* loop index i of _send_message_with_retry
    sleeps,        \* time.sleep calls of the current _send_message_with_retry
    thread,        \* history of chat_session: messages answered by the model
    response,      \* the last response returned by _send_message_with_retry
    exc,           \* the exception being propagated or just handled
    calls,         \* per row: how often each operation was called for it
    faults,        \* remote operations that have ended in failure so far
    clock          \* datetime.now(), in seconds since the run began

vars == <<pc, fundamentos, cache, chat_session, sheet, sheet0, scanned,
          pending_rows, cur, roleIdx, patient_pdfs, temp_dirs, attempt, waits,
          meta_attempt, meta_waits, step, message, send_i, sleeps, thread,
          response, exc, calls, faults, clock>>

----------------------------------------------------------------------------
(* Bounds of the model *)

\* data rows of the worksheet (the header row comes on top of these)
NumDataRows == 2

\* remote operations that may end in failure during one run (an attempt
\* that is retried does not count, the call that gives up does)
MaxFaults == 2

----------------------------------------------------------------------------
(* Config *)

MAX_RETRIES == 5
RETRY_MIN_WAIT == 1
RETRY_MAX_WAIT == 60

\* default of the parameter retries of _send_message_with_retry
retries == 3

\* str(e)[:50] in process_single_case
STATUS_MSG_LEN == 50

\* len(url) > 5 in process_single_case
MIN_URL_LEN == 5

\* len(url) > 20 in get_id_from_url
MIN_ID_LEN == 20

Min(a, b) == IF a <= b THEN a ELSE b
Max(a, b) == IF a >= b THEN a ELSE b

----------------------------------------------------------------------------
(* Locators and get_id_from_url *)

\* mimeType values that download_as_pdf tells apart
GDOC == "application/vnd.google-apps.document"
PDF == "application/pdf"
DOCX ==
    "application/vnd.openxmlformats-officedocument.wordprocessingml.document"
TXT == "text/plain"

\* A locator is described by its length, by which pattern it holds and by
\* the mimeType of the Drive file it names ("" when it names none).
EmptyUrl == [form |-> "empty",   len |-> 0,  mime |-> ""]
DocUrl   == [form |-> "d",       len |-> 60, mime |-> GDOC]
ShortUrl == [form |-> "bare",    len |-> 3,  mime |-> ""]
OtherUrl == [form |-> "other",   len |-> 30, mime |-> ""]
PdfUrl   == [form |-> "d",       len |-> 61, mime |-> PDF]
DocxUrl  == [form |-> "d",       len |-> 62, mime |-> DOCX]
MidUrl   == [form |-> "bare",    len |-> 12, mime |-> ""]
FolderUrl ==
    [form |-> "folders", len |-> 50,
     mime |-> "application/vnd.google-apps.folder"]
TxtUrl   == [form |-> "bare",    len |-> 33, mime |-> TXT]
ZipUrl   == [form |-> "d",       len |-> 64, mime |-> "application/zip"]

\* variant: any non-empty string is returned as an id
get_id_from_url_any(url) == IF url.len = 0 THEN "None" ELSE "id"

\* the file id, or "None"
get_id_from_url(url) ==
    IF url.len = 0 THEN "None"
    ELSE IF url.form = "d" THEN "id"
    ELSE IF url.form = "folders" THEN "id"
    ELSE IF url.len > MIN_ID_LEN /\ url.form = "bare" THEN "id"
    ELSE "None"

\* docs_to_download, in order
Roles == <<"caratula", "transcript", "evidencias", "dair", "fair",
           "rapsheet", "summary">>

RoleSet == {Roles[k] : k \in 1..Len(Roles)}

\* variant: every non-empty cell is taken for a locator
Plausible_nonempty(url) == url.len # 0

\* `if url and len(url) > 5`
Plausible(url) == url.len # 0 /\ url.len > MIN_URL_LEN

----------------------------------------------------------------------------
(* DriveService: what download_as_pdf writes to output_path *)

\* files().get_media: the bytes of the file as Drive stores them
get_media(url) == [file |-> url, as |-> "stored"]

\* files().export_media(mimeType='application/pdf'): the PDF Drive makes of
\* a native document
export_media(url) == [file |-> url, as |-> "exported"]

\* characters that have a Latin-1 code
Latin1 == {"a", "e_acute"}

\* the text of a stored file: the paragraphs of a docx joined, or the bytes
\* of a text file decoded
TextOf(bytes) == <<"a", "e_acute", "euro">>

\* text.encode('latin-1', 'replace').decode('latin-1')
sanitized_text(text) ==
    [i \in 1..Len(text) |-> IF text[i] \in Latin1 THEN text[i] ELSE "?"]

\* _create_pdf_from_text: one page set in Arial 11 with the sanitized text
create_pdf_from_text(text) == [as |-> "fpdf", text |-> sanitized_text(text)]

\* variant: a type that is not supported is converted like a text file
pdf_written_as_text(url) ==
    IF url.mime = GDOC THEN export_media(url)
    ELSE IF url.mime = PDF THEN get_media(url)
    ELSE create_pdf_from_text(TextOf(get_media(url)))

\* the content download_as_pdf writes for the file a locator names, by the
\* mimeType of its metadata
pdf_written(url) ==
    IF url.mime = GDOC THEN export_media(url)
    ELSE IF url.mime = PDF THEN get_media(url)
    ELSE IF url.mime = DOCX THEN create_pdf_from_text(TextOf(get_media(url)))
    ELSE IF url.mime = TXT THEN create_pdf_from_text(TextOf(get_media(url)))
    ELSE get_media(url)

\* the branches of download_as_pdf that open output_path before the first
\* chunk is fetched (_execute_download); the others fetch into memory
opens_before_fetch(url) == url.mime \notin {DOCX, TXT}

\* what a failed download leaves at output_path
partial(url) == [file |-> url, as |-> "partial"]

\* os.path.join(temp_dir, f"{doc_type}.pdf"); a temp_dir is named by the row
\* it was made for
output_path(temp_dir, doc_type) == [dir |-> temp_dir, name |-> doc_type]

\* the files of a directory after `data` was written to `path`
write_file(fs, path, data) ==
    [fs EXCEPT ![path.dir] =
        {f \in @ : f.name # path.name} \cup {[name |-> path.name, data |-> data]}]

\* shutil.rmtree(temp_dir)
rmtree(fs, temp_dir) == [d \in DOMAIN fs \ {temp_dir} |-> fs[d]]

\* tempfile.mkdtemp(): a new, empty directory
mkdtemp(fs, temp_dir) == [d \in DOMAIN fs \cup {temp_dir} |->
                            IF d = temp_dir THEN {} ELSE fs[d]]

----------------------------------------------------------------------------
(* Status cells and exception messages *)

\* A text is named by m and has n characters; its prefix of k characters
\* is the same m with n = k.
Msg(m, n) == [m |-> m, n |-> n]

Truncate(msg, k) == [m |-> msg.m, n |-> Min(msg.n, k)]

Status(s) == [s |-> s, m |-> "", n |-> 0]

PENDING == Status("PENDING PROCESSING")
PROCESSING == Status("PROCESSING")
COMPLETED == Status("COMPLETED")
MAIN_LINK_MISSING == Status("ERROR: MAIN LINK MISSING")
ERROR_SAVING == Status("ERROR SAVING RESULTS")

\* the sentinel between blanks, as a hand-edited cell may hold it
PADDED == Status(" PENDING PROCESSING ")

\* str.strip() of a cell
strip(cell) ==
    IF cell.s = " PENDING PROCESSING "
    THEN [cell EXCEPT !.s = "PENDING PROCESSING"]
    ELSE cell

\* variant: the whole message is written
ErrorStatus_whole(e) == [s |-> "ERROR: ", m |-> e.msg.m, n |-> e.msg.n]

\* f"ERROR: {str(e)[:50]}"
ErrorStatus(e) ==
    [s |-> "ERROR: ", m |-> Truncate(e.msg, STATUS_MSG_LEN).m,
     n |-> Truncate(e.msg, STATUS_MSG_LEN).n]

NoExc == [type |-> "none", msg |-> Msg("", 0)]
Exc(type, msg) == [type |-> type, msg |-> msg]

\* ValueError raised when patient_pdfs is empty
NoDocumentsError ==
    Exc("ValueError", Msg("No se pudieron descargar documentos", 60))

SessionError ==
    Exc("ValueError", Msg("La sesion de chat no ha sido inicializada", 42))

\* messages of the errors the remote services raise
HttpMsg == Msg("HttpError 503 when requesting", 80)
QuotaMsg == Msg("429 Quota exceeded", 17)

----------------------------------------------------------------------------
(* The review steps *)

\* variant: two steps swapped and the files attached to the second step too
flow_steps_swapped == <<
    [name |-> "Qualifying Relationship", prompt |-> "URL_PROMPT_QUALIFYING",
     attach |-> TRUE],
    [name |-> "Joint Residence", prompt |-> "URL_PROMPT_JOINT_RESIDENCE",
     attach |-> TRUE],
    [name |-> "Good Faith Character (GFC)", prompt |-> "URL_PROMPT_GFM",
     attach |-> FALSE],
    [name |-> "GMC / Permanent Bar", prompt |-> "URL_PROMPT_GMC_PB",
     attach |-> FALSE],
    [name |-> "Presence of Abuse", prompt |-> "URL_PROMPT_ABUSE",
     attach |-> FALSE],
    [name |-> "Auditoria Final", prompt |-> "URL_PROMPT_AUDITORIA",
     attach |-> FALSE] >>

flow_steps == <<
    [name |-> "Qualifying Relationship", prompt |-> "URL_PROMPT_QUALIFYING",
     attach |-> TRUE],
    [name |-> "Good Faith Character (GFC)", prompt |-> "URL_PROMPT_GFM",
     attach |-> FALSE],
    [name |-> "Joint Residence", prompt |-> "URL_PROMPT_JOINT_RESIDENCE",
     attach |-> FALSE],
    [name |-> "GMC / Permanent Bar", prompt |-> "URL_PROMPT_GMC_PB",
     attach |-> FALSE],
    [name |-> "Presence of Abuse", prompt |-> "URL_PROMPT_ABUSE",
     attach |-> FALSE],
    [name |-> "Auditoria Final", prompt |-> "URL_PROMPT_AUDITORIA",
     attach |-> FALSE] >>

NoMessage == [prompt |-> "", parts |-> <<>>]

\* response.usage_metadata of the answer to step k, sent on a thread that
\* holds `history`: the prompt tokens grow with the history that is sent
usage_metadata(k, history) ==
    [prompt_token_count |-> 10 * (Len(history) + 1),
     candidates_token_count |-> k]

\* the response to step k of row r: its text is named by (row, step)
Response(r, k, usage) ==
    [row |-> r, step |-> k, input |-> usage.prompt_token_count,
     output |-> usage.candidates_token_count]

NoResponse == [row |-> 0, step |-> 0, input |-> 0, output |-> 0]

----------------------------------------------------------------------------
(* tenacity: stop_after_attempt and wait_exponential as configured *)

stop_after_attempt(n) == n >= MAX_RETRIES

\* variant: the exponent is the attempt number itself
wait_exponential_from_two(n) ==
    Max(Max(0, RETRY_MIN_WAIT), Min(1 * 2 ^ n, RETRY_MAX_WAIT))

\* wait_exponential(multiplier=1, min=RETRY_MIN_WAIT, max=RETRY_MAX_WAIT)
wait_exponential(n) ==
    Max(Max(0, RETRY_MIN_WAIT), Min(1 * 2 ^ (n - 1), RETRY_MAX_WAIT))

RetryError(call) == Exc("RetryError", Msg(call, 40))

\* variant: the delay grows linearly
send_wait_linear(i) == 2 * (i + 1)

\* the delay of _send_message_with_retry after failure number i (0-based)
send_wait(i) == 2 ^ i

\* variant: the loop gives up one iteration early
last_send_early(i) == i = retries - 2

\* the last iteration of _send_message_with_retry re-raises
last_send(i) == i = retries - 1

----------------------------------------------------------------------------
(* The worksheet *)

NumRows == NumDataRows + 1
Rows == 1..NumRows

Links(caratula, transcript, dair, summary) ==
    [r \in RoleSet |->
        IF r = "caratula" THEN caratula
        ELSE IF r = "transcript" THEN transcript
        ELSE IF r = "dair" THEN dair
        ELSE IF r = "summary" THEN summary
        ELSE EmptyUrl]

\* an empty date cell
NoTime == -1

\* the cells K, M, N, Q and R of a row before write_grading_results
NoResult ==
    [grading_url |-> [row |-> 0, step |-> 0], tokens_in |-> 0, tokens_out |-> 0,
     end |-> NoTime, duration |-> 0]

\* 1-based column numbers of SheetsService
COL_STATUS == 3
COL_DURATION == 18

\* a row: status is column C, start is column P, result is K..R without P;
\* cols is len(row) in all_values, and a cell beyond it reads as empty
Row(status, links) ==
    [status |-> status, links |-> links, start |-> NoTime, result |-> NoResult,
     cols |-> COL_DURATION]

\* the first row: its cells would pass every test of the scan, only its
\* position keeps it out
HeaderRow == Row(PENDING, Links(DocUrl, DocUrl, DocUrl, DocUrl))

\* the rows a worksheet may hold when the run begins
RowInputs ==
    { Row(PENDING, Links(ShortUrl, DocUrl, OtherUrl, DocxUrl)),
      Row(PENDING, Links(EmptyUrl, EmptyUrl, EmptyUrl, DocUrl)),
      Row(PENDING, Links(ShortUrl, DocUrl, OtherUrl, EmptyUrl)),
      Row(PADDED, Links(ShortUrl, OtherUrl, OtherUrl, OtherUrl)),
      Row(COMPLETED, Links(EmptyUrl, DocUrl, EmptyUrl, DocUrl)) }

SheetInputs ==
    { s \in [Rows -> RowInputs \cup {HeaderRow}] :
        /\ s[1] = HeaderRow
        /\ \A r \in Rows \ {1} : s[r] \in RowInputs }

NoCalls ==
    [mark |-> 0, norm |-> 0, pdf |-> 0, flow |-> 0, send |-> 0, upload |-> 0,
     write |-> 0, seterr |-> 0, term |-> 0, termOk |-> FALSE,
     started |-> NoTime, answered |-> 0, markOk |-> FALSE]

\* variant: the validation rejects a row only when both main links are empty
main_link_missing_both(row) ==
    row.links["transcript"].len = 0 /\ row.links["summary"].len = 0

\* `if not link_transcript or not link_summary`
main_link_missing(row) ==
    row.links["transcript"].len = 0 \/ row.links["summary"].len = 0

\* variant: a row that an earlier run left in PROCESSING is taken up again
is_pending_or_processing(row) ==
    /\ row.cols >= COL_STATUS
    /\ strip(row.status) \in {PENDING, PROCESSING}

\* `if len(row) >= self.COL_STATUS`, `status = row[COL_STATUS - 1].strip()`,
\* `status == 'PENDING PROCESSING'`
is_pending(row) == row.cols >= COL_STATUS /\ strip(row.status) = PENDING

\* rows that get_pending_rows marks ERROR: MAIN LINK MISSING
Rejected(sh) ==
    { r \in Rows : r # 1 /\ is_pending(sh[r]) /\ main_link_missing(sh[r]) }

\* variant: the first row is read like any other
IsReady_with_header(r) ==
    is_pending(sheet[r]) /\ ~main_link_missing(sheet[r])

\* rows that get_pending_rows appends to rows_data
IsReady(r) ==
    r # 1 /\ is_pending(sheet[r]) /\ ~main_link_missing(sheet[r])

RowIndices == [i \in 1..NumRows |-> i]

Bump(c, r, f) == [c EXCEPT ![r][f] = @ + 1]

\* SheetsService.update_status: the write of column C, whose failure is
\* logged and swallowed
update_status(sh, r, status, ok) ==
    IF ok THEN [sh EXCEPT ![r].status = status] ELSE sh

\* update_status was called for row r with a final status; ok: it was written
TermCall(c, r, ok) ==
    [c EXCEPT ![r].term = @ + 1, ![r].termOk = ok]

----------------------------------------------------------------------------
Init ==
    /\ pc = "ensure_cache"
    /\ fundamentos \in {"absent", "empty", "ok"}
    /\ cache = "none"
    /\ chat_session = FALSE
    /\ sheet \in SheetInputs
    /\ sheet0 = sheet
    /\ scanned = FALSE
    /\ pending_rows = <<>>
    /\ cur = 0
    /\ roleIdx = 0
    /\ patient_pdfs = <<>>
    /\ temp_dirs = <<>>
    /\ attempt = 0
    /\ waits = <<>>
    /\ meta_attempt = 0
    /\ meta_waits = <<>>
    /\ step = 0
    /\ message = NoMessage
    /\ send_i = 0
    /\ sleeps = <<>>
    /\ thread = <<>>
    /\ response = NoResponse
    /\ exc = NoExc
    /\ calls = [r \in Rows |-> NoCalls]
    /\ faults = 0
    /\ clock = 0

\* the remote service answers k more operations with a failure
Fail(k) == faults + k <= MaxFaults /\ faults' = faults + k

jobVars == <<roleIdx, patient_pdfs, temp_dirs, step, message, send_i, sleeps,
             response>>
sheetVars == <<sheet, sheet0, scanned, pending_rows, cur, calls>>
retryVars == <<attempt, waits, meta_attempt, meta_waits>>

\* variant: run() logs the setup failure and goes on to the scan
fatal_target_continue == "get_pending"

\* where run() goes when cache or session setup raises: log critical, return
fatal_target == "aborted"

----------------------------------------------------------------------------
(* GradingProcess.run, step 1: cache and chat session *)

\* variant: the list of PDFs is not checked, create_cache is called with an
\* empty list
EnsureFundamentosCache_unchecked_list ==
    /\ pc = "ensure_cache"
    /\ IF fundamentos = "absent"
       THEN /\ exc' = Exc("FileNotFoundError", Msg("no fundamentos dir", 60))
            /\ pc' = fatal_target
            /\ UNCHANGED <<attempt, waits>>
       ELSE /\ pc' = "create_cache"
            /\ attempt' = 1
            /\ waits' = <<>>
            /\ exc' = exc
    /\ UNCHANGED <<clock, fundamentos, cache, chat_session, thread,
                   meta_attempt, meta_waits, faults>>
    /\ UNCHANGED <<jobVars, sheetVars>>

\* CacheService.ensure_fundamentos_cache up to the call of create_cache
EnsureFundamentosCache ==
    /\ pc = "ensure_cache"
    /\ IF fundamentos = "absent"
       THEN /\ exc' = Exc("FileNotFoundError", Msg("no fundamentos dir", 60))
            /\ pc' = fatal_target
            /\ UNCHANGED <<attempt, waits>>
       ELSE IF fundamentos = "empty"
       THEN /\ exc' = Exc("ValueError", Msg("no PDFs in fundamentos", 90))
            /\ pc' = fatal_target
            /\ UNCHANGED <<attempt, waits>>
       ELSE /\ pc' = "create_cache"
            /\ attempt' = 1
            /\ waits' = <<>>
            /\ exc' = exc
    /\ UNCHANGED <<clock, fundamentos, cache, chat_session, thread,
                   meta_attempt,
                   meta_waits, faults>>
    /\ UNCHANGED <<jobVars, sheetVars>>

\* one attempt of VertexWrapper.create_cache under its retry decorator
CreateCacheAttempt ==
    /\ pc = "create_cache"
    /\ \E outcome \in {"ok", "transient", "fatal"} :
        \/ /\ outcome = "ok"
           /\ cache' = "created"
           /\ pc' = "init_session"
           /\ attempt' = 0
           /\ waits' = <<>>
           /\ exc' = exc
        \/ /\ outcome = "transient"
           /\ IF stop_after_attempt(attempt)
              THEN /\ exc' = RetryError("create_cache")
                   /\ pc' = fatal_target
                   /\ UNCHANGED <<attempt, waits>>
              ELSE /\ waits' = Append(waits, wait_exponential(attempt))
                   /\ attempt' = attempt + 1
                   /\ UNCHANGED <<pc, exc>>
           /\ cache' = cache
        \/ /\ outcome = "fatal"
           /\ exc' = Exc("OSError", Msg("cannot read file", 30))
           /\ pc' = fatal_target
           /\ UNCHANGED <<cache, attempt, waits>>
    /\ UNCHANGED <<clock, fundamentos, chat_session, thread, meta_attempt,
                   meta_waits, faults>>
    /\ UNCHANGED <<jobVars, sheetVars>>

\* ChatService.initialize_session(cache_obj)
InitializeSession ==
    /\ pc = "init_session"
    /\ \E fetched \in BOOLEAN :
        IF fetched
        THEN /\ chat_session' = TRUE
             /\ thread' = <<>>
             /\ pc' = "get_pending"
             /\ exc' = exc
        ELSE /\ chat_session' = chat_session
             /\ thread' = thread
             /\ pc' = fatal_target
             /\ exc' = Exc("HttpError", HttpMsg)
    /\ UNCHANGED <<clock, fundamentos, cache, faults>>
    /\ UNCHANGED <<jobVars, sheetVars, retryVars>>

----------------------------------------------------------------------------
(* GradingProcess.run, step 2: the scan of the worksheet *)

\* SheetsService.get_pending_rows: get_all_values, then for every row the
\* status test, the main-link validation and its update_status
GetPendingRows ==
    /\ pc = "get_pending"
    /\ \E readOk \in BOOLEAN :
        IF ~readOk
        THEN /\ pc' = "crashed"
             /\ exc' = Exc("APIError", HttpMsg)
             /\ UNCHANGED <<sheet, scanned, pending_rows, cur, faults, calls>>
        ELSE /\ scanned' = TRUE
             /\ \E failed \in SUBSET Rejected(sheet) :
                  /\ Fail(Cardinality(failed))
                  /\ sheet' = [r \in Rows |->
                                IF r \in Rejected(sheet)
                                THEN update_status(sheet, r, MAIN_LINK_MISSING,
                                                   r \notin failed)[r]
                                ELSE sheet[r]]
                  /\ calls' = [r \in Rows |->
                                IF r \in Rejected(sheet)
                                THEN TermCall(calls, r, r \notin failed)[r]
                                ELSE calls[r]]
             /\ pending_rows' = SelectSeq(RowIndices, IsReady)
             /\ IF SelectSeq(RowIndices, IsReady) = <<>>
                THEN pc' = "done" /\ cur' = cur
                ELSE pc' = "job_start" /\ cur' = 1
             /\ exc' = exc
    /\ UNCHANGED <<clock, fundamentos, cache, chat_session, thread, sheet0>>
    /\ UNCHANGED <<jobVars, retryVars>>

----------------------------------------------------------------------------
(* GradingProcess.process_single_case *)

CurRow == pending_rows[cur]

\* variant: the status is written by a call of its own and the write of the
\* start time is lost
batch_update_status_only(sh, r, now, ok) ==
    IF ok THEN [sh EXCEPT ![r].status = PROCESSING] ELSE sh

\* `self.sheet.batch_update(updates)` of mark_processing_start: C and P of
\* the row are written by one request, or neither is
batch_update(sh, r, now, ok) ==
    IF ok
    THEN [sh EXCEPT ![r].status = PROCESSING, ![r].start = now]
    ELSE sh

\* mark_processing_start was called for row r at time now; ok: it wrote
MarkCall(c, r, now, ok) ==
    [Bump(c, r, "mark") EXCEPT ![r].started = now, ![r].markOk = ok]

\* variant: mark_processing_start lets the failure of its write out, and
\* the handler of process_single_case takes it
MarkProcessingStart_raises ==
    /\ pc = "job_start"
    /\ temp_dirs' = mkdtemp(temp_dirs, CurRow)
    /\ patient_pdfs' = <<>>
    /\ \E ok \in BOOLEAN :
        /\ Fail(IF ok THEN 0 ELSE 1)
        /\ sheet' = batch_update(sheet, CurRow, clock, ok)
        /\ calls' = MarkCall(calls, CurRow, clock, ok)
        /\ IF ok
           THEN pc' = "doc" /\ roleIdx' = 1 /\ exc' = exc
           ELSE /\ pc' = "job_except" /\ roleIdx' = roleIdx
                /\ exc' = Exc("APIError", HttpMsg)
    /\ UNCHANGED <<clock, fundamentos, cache, chat_session, thread, sheet0,
                   scanned, pending_rows, cur, step, message, send_i, sleeps,
                   response>>
    /\ UNCHANGED retryVars

\* tempfile.mkdtemp, then SheetsService.mark_processing_start: one batched
\* write of C and P whose failure is logged and swallowed
MarkProcessingStart ==
    /\ pc = "job_start"
    /\ temp_dirs' = mkdtemp(temp_dirs, CurRow)
    /\ patient_pdfs' = <<>>
    /\ \E ok \in BOOLEAN :
        /\ Fail(IF ok THEN 0 ELSE 1)
        /\ sheet' = batch_update(sheet, CurRow, clock, ok)
        /\ calls' = MarkCall(calls, CurRow, clock, ok)
    /\ roleIdx' = 1
    /\ pc' = "doc"
    /\ UNCHANGED <<clock, fundamentos, cache, chat_session, thread, sheet0,
                   scanned, pending_rows, cur, step, message, send_i, sleeps,
                   response, exc>>
    /\ UNCHANGED retryVars

CurUrl == sheet[CurRow].links[Roles[roleIdx]]

\* the end of one iteration of `for doc_type, url in docs_to_download`
NextDoc ==
    IF roleIdx < Len(Roles)
    THEN roleIdx' = roleIdx + 1 /\ pc' = "doc"
    ELSE roleIdx' = roleIdx /\ pc' = "check_docs"

\* an iteration whose url fails `if url and len(url) > 5`
SkipDoc ==
    /\ pc = "doc"
    /\ ~Plausible(CurUrl)
    /\ NextDoc
    /\ UNCHANGED <<clock, fundamentos, cache, chat_session, thread, exc,
                   faults>>
    /\ UNCHANGED <<patient_pdfs, temp_dirs, step, message, send_i, sleeps,
                   response>>
    /\ UNCHANGED <<sheetVars, retryVars>>

\* get_id_from_url and the call of drive_service.download_as_pdf; with no
\* file id the request cannot be built and the call raises at once
BeginDownload ==
    /\ pc = "doc"
    /\ Plausible(CurUrl)
    /\ calls' = Bump(calls, CurRow, "norm")
    /\ IF get_id_from_url(CurUrl) = "None"
       THEN /\ pc' = "doc_except"
            /\ exc' = Exc("TypeError", Msg("Missing required parameter", 35))
            /\ UNCHANGED retryVars
       ELSE /\ pc' = "meta"
            /\ attempt' = 1
            /\ waits' = <<>>
            /\ meta_attempt' = 1
            /\ meta_waits' = <<>>
            /\ exc' = exc
    /\ UNCHANGED <<clock, fundamentos, cache, chat_session, thread, sheet,
                   sheet0,
                   scanned, pending_rows, cur, faults>>
    /\ UNCHANGED jobVars

\* one attempt of DriveService.get_file_metadata under its retry decorator;
\* its RetryError is not retried by the decorator of download_as_pdf
GetFileMetadataAttempt ==
    /\ pc = "meta"
    /\ \E outcome \in {"ok", "transient"} :
        \/ /\ outcome = "ok"
           /\ pc' = "body"
           /\ meta_attempt' = 0
           /\ meta_waits' = <<>>
           /\ UNCHANGED <<exc, faults>>
        \/ /\ outcome = "transient"
           /\ IF stop_after_attempt(meta_attempt)
              THEN /\ Fail(1)
                   /\ exc' = RetryError("get_file_metadata")
                   /\ pc' = "doc_except"
                   /\ UNCHANGED <<meta_attempt, meta_waits>>
              ELSE /\ meta_waits' =
                        Append(meta_waits, wait_exponential(meta_attempt))
                   /\ meta_attempt' = meta_attempt + 1
                   /\ UNCHANGED <<pc, exc, faults>>
    /\ UNCHANGED <<clock, fundamentos, cache, chat_session, thread, attempt,
                   waits>>
    /\ UNCHANGED <<jobVars, sheetVars>>

\* output_path of the current iteration
CurPath == output_path(CurRow, Roles[roleIdx])

\* the files of temp_dir after an attempt of download_as_pdf failed in the
\* download or the conversion
after_failure(fs, path, url) ==
    IF opens_before_fetch(url) THEN write_file(fs, path, partial(url)) ELSE fs

\* the rest of one attempt of DriveService.download_as_pdf: the export or
\* download, the conversion and the write of output_path
DownloadAttempt ==
    /\ pc = "body"
    /\ \E outcome \in {"ok", "transient", "fatal"} :
        \/ /\ outcome = "ok"
           /\ temp_dirs' = write_file(temp_dirs, CurPath, pdf_written(CurUrl))
           /\ patient_pdfs' = Append(patient_pdfs, CurPath)
           /\ calls' = Bump(calls, CurRow, "pdf")
           /\ NextDoc
           /\ attempt' = 0
           /\ waits' = <<>>
           /\ UNCHANGED <<meta_attempt, meta_waits, exc, faults>>
        \/ /\ outcome = "transient"
           /\ temp_dirs' = after_failure(temp_dirs, CurPath, CurUrl)
           /\ IF stop_after_attempt(attempt)
              THEN /\ Fail(1)
                   /\ exc' = RetryError("download_as_pdf")
                   /\ pc' = "doc_except"
                   /\ UNCHANGED <<attempt, waits, meta_attempt, meta_waits>>
              ELSE /\ waits' = Append(waits, wait_exponential(attempt))
                   /\ attempt' = attempt + 1
                   /\ meta_attempt' = 1
                   /\ meta_waits' = <<>>
                   /\ pc' = "meta"
                   /\ UNCHANGED <<exc, faults>>
           /\ UNCHANGED <<patient_pdfs, roleIdx, calls>>
        \/ /\ outcome = "fatal"
           /\ Fail(1)
           /\ temp_dirs' = after_failure(temp_dirs, CurPath, CurUrl)
           /\ exc' = Exc("OSError", Msg("cannot write file", 30))
           /\ pc' = "doc_except"
           /\ UNCHANGED <<patient_pdfs, roleIdx, attempt, waits,
                          meta_attempt, meta_waits, calls>>
    /\ UNCHANGED <<clock, fundamentos, cache, chat_session, thread>>
    /\ UNCHANGED <<step, message, send_i, sleeps, response>>
    /\ UNCHANGED <<sheet, sheet0, scanned, pending_rows, cur>>

\* variant: the download loop has no handler of its own, the exception
\* reaches the handler of process_single_case
DocExcept_propagates ==
    /\ pc = "doc_except"
    /\ pc' = "job_except"
    /\ UNCHANGED <<clock, fundamentos, cache, chat_session, thread, exc,
                   faults>>
    /\ UNCHANGED <<jobVars, sheetVars, retryVars>>

\* variant: the path is appended before download_as_pdf is called, so the
\* path of a failed download stays in the list
DocExcept_appended ==
    /\ pc = "doc_except"
    /\ exc' = NoExc
    /\ NextDoc
    /\ patient_pdfs' = Append(patient_pdfs, CurPath)
    /\ attempt' = 0
    /\ waits' = <<>>
    /\ meta_attempt' = 0
    /\ meta_waits' = <<>>
    /\ UNCHANGED <<clock, fundamentos, cache, chat_session, thread, faults>>
    /\ UNCHANGED <<temp_dirs, step, message, send_i, sleeps, response>>
    /\ UNCHANGED sheetVars

\* `except Exception as e: logger.warning(...)` of the download loop
DocExcept ==
    /\ pc = "doc_except"
    /\ exc' = NoExc
    /\ NextDoc
    /\ attempt' = 0
    /\ waits' = <<>>
    /\ meta_attempt' = 0
    /\ meta_waits' = <<>>
    /\ UNCHANGED <<clock, fundamentos, cache, chat_session, thread, faults>>
    /\ UNCHANGED <<patient_pdfs, temp_dirs, step, message, send_i, sleeps,
                   response>>
    /\ UNCHANGED sheetVars

\* variant: the check for an empty document list is missing
no_documents_unchecked(pdfs) == FALSE

\* `if not patient_pdfs`
no_documents(pdfs) == pdfs = <<>>

\* variant: execute_grading_flow does not look at the session
no_session_unchecked(session) == FALSE

\* `if not self.chat_session` of execute_grading_flow
no_session(session) == ~session

\* `if not patient_pdfs: raise ValueError`, else the call of
\* chat_service.execute_grading_flow up to its first step
CheckDocs ==
    /\ pc = "check_docs"
    /\ IF no_documents(patient_pdfs)
       THEN /\ exc' = NoDocumentsError
            /\ pc' = "job_except"
            /\ UNCHANGED <<step, calls>>
       ELSE /\ calls' = Bump(calls, CurRow, "flow")
            /\ IF no_session(chat_session)
               THEN /\ exc' = SessionError
                    /\ pc' = "job_except"
                    /\ step' = step
               ELSE /\ step' = 1
                    /\ pc' = "fetch_prompt"
                    /\ exc' = exc
    /\ UNCHANGED <<clock, fundamentos, cache, chat_session, thread, sheet,
                   sheet0,
                   scanned, pending_rows, cur, faults>>
    /\ UNCHANGED <<roleIdx, patient_pdfs, temp_dirs, message, send_i, sleeps,
                   response>>
    /\ UNCHANGED retryVars

----------------------------------------------------------------------------
(* ChatService.execute_grading_flow *)

\* variant: the files are attached only while the thread is empty
message_parts_fresh_thread(k, pdfs) ==
    [prompt |-> flow_steps[k].prompt,
     parts |-> IF flow_steps[k].attach /\ pdfs # <<>> /\ thread = <<>>
               THEN pdfs ELSE <<>>]

\* message_parts of a step: the prompt, plus every patient PDF when the
\* step attaches files
message_parts(k, pdfs) ==
    [prompt |-> flow_steps[k].prompt,
     parts |-> IF flow_steps[k].attach /\ pdfs # <<>> THEN pdfs ELSE <<>>]

\* variant: a failed step ends the loop and the flow returns what it has
flow_except_returns == "upload"

\* `except Exception as e: ... raise` of execute_grading_flow: the failure
\* of a step reaches the handler of process_single_case
flow_except == "job_except"

\* _fetch_doc_text(prompt_url) and the preparation of message_parts; a
\* failure is re-raised by execute_grading_flow
FetchPrompt ==
    /\ pc = "fetch_prompt"
    /\ \E ok \in BOOLEAN :
        IF ok
        THEN /\ message' = message_parts(step, patient_pdfs)
             /\ calls' = Bump(calls, CurRow, "send")
             /\ send_i' = 0
             /\ sleeps' = <<>>
             /\ pc' = "send"
             /\ UNCHANGED <<exc, faults>>
        ELSE /\ Fail(1)
             /\ exc' = Exc("HttpError", HttpMsg)
             /\ pc' = flow_except
             /\ UNCHANGED <<message, calls, send_i, sleeps>>
    /\ UNCHANGED <<clock, fundamentos, cache, chat_session, thread, sheet,
                   sheet0,
                   scanned, pending_rows, cur>>
    /\ UNCHANGED <<roleIdx, patient_pdfs, temp_dirs, step, response>>
    /\ UNCHANGED retryVars

\* one iteration of _send_message_with_retry; after the answer of the last
\* step execute_grading_flow returns its text and usage
SendAttempt ==
    /\ pc = "send"
    /\ \E ok \in BOOLEAN :
        IF ok
        THEN /\ thread' = Append(thread,
                    [row |-> CurRow, step |-> step,
                     prompt |-> message.prompt, parts |-> message.parts,
                     usage |-> usage_metadata(step, thread)])
             /\ response' = Response(CurRow, step,
                                      usage_metadata(step, thread))
             /\ clock' = clock + 1
             /\ calls' = Bump(calls, CurRow, "answered")
             /\ IF step < Len(flow_steps)
                THEN step' = step + 1 /\ pc' = "fetch_prompt"
                ELSE step' = step /\ pc' = "upload"
             /\ UNCHANGED <<send_i, sleeps, exc, faults>>
        ELSE /\ IF last_send(send_i)
                THEN /\ Fail(1)
                     /\ exc' = Exc("GoogleAPIError", QuotaMsg)
                     /\ pc' = flow_except
                     /\ UNCHANGED <<send_i, sleeps>>
                ELSE /\ sleeps' = Append(sleeps, send_wait(send_i))
                     /\ send_i' = send_i + 1
                     /\ UNCHANGED <<pc, exc, faults>>
             /\ UNCHANGED <<thread, response, step, clock, calls>>
    /\ UNCHANGED <<fundamentos, cache, chat_session>>
    /\ UNCHANGED <<roleIdx, patient_pdfs, temp_dirs, message>>
    /\ UNCHANGED <<sheet, sheet0, scanned, pending_rows, cur>>
    /\ UNCHANGED retryVars

----------------------------------------------------------------------------
(* process_single_case, after the review *)

\* what execute_grading_flow returns after the loop: the text of the last
\* response (named by its row and step) and the usage of that response
final_text(resp) == [row |-> resp.row, step |-> resp.step]

\* variant: the token counts are accumulated over the steps of the job
token_counts_summed(resp) ==
    [input |-> resp.input * resp.step, output |-> resp.output * resp.step]

token_counts(resp) == [input |-> resp.input, output |-> resp.output]

\* webViewLink of the file upload_file created: it names the text uploaded
uploaded_file(text) == text

\* result_data of process_single_case: it has no 'start_time' key
result_data(grading_link, tokens) ==
    [grading_url |-> grading_link, tokens_in |-> tokens.input,
     tokens_out |-> tokens.output]

\* `result_data.get('start_time', end_time)`
start_time_of(data, end_time) ==
    IF "start_time" \in DOMAIN data THEN data.start_time ELSE end_time

\* round((end_time - start_time).total_seconds() / 60, 2), in hundredths of
\* a minute
duration_minutes(start_time, end_time) ==
    (10 * (end_time - start_time) + 3) \div 6

\* the values of K, M, N, Q, R that write_grading_results prepares
ResultCells(data, start_time, end_time) ==
    [grading_url |-> data.grading_url, tokens_in |-> data.tokens_in,
     tokens_out |-> data.tokens_out, end |-> end_time,
     duration |-> duration_minutes(start_time, end_time)]

\* the write of the deliverable file and google_manager.upload_file
UploadResult ==
    /\ pc = "upload"
    /\ calls' = Bump(calls, CurRow, "upload")
    /\ \E ok \in BOOLEAN :
        IF ok
        THEN pc' = "write_results" /\ UNCHANGED <<exc, faults>>
        ELSE /\ Fail(1)
             /\ exc' = Exc("HttpError", HttpMsg)
             /\ pc' = "job_except"
    /\ UNCHANGED <<clock, fundamentos, cache, chat_session, thread, sheet,
                   sheet0,
                   scanned, pending_rows, cur>>
    /\ UNCHANGED <<jobVars, retryVars>>

\* variant: the status is COMPLETED whether the results were written or not
saving_status_completed(written) == COMPLETED

\* the status write_grading_results makes: COMPLETED after the write of
\* K..R, ERROR SAVING RESULTS from its except branch
saving_status(written) == IF written THEN COMPLETED ELSE ERROR_SAVING

\* SheetsService.write_grading_results: the write of K..R, then COMPLETED;
\* when the write of K..R raises, ERROR SAVING RESULTS instead
WriteGradingResults ==
    /\ pc = "write_results"
    /\ \E written \in BOOLEAN, ok \in BOOLEAN :
        LET data == result_data(uploaded_file(final_text(response)),
                                token_counts(response))
            end_time == clock
            start_time == start_time_of(data, end_time)
        IN  /\ Fail((IF written THEN 0 ELSE 1) + (IF ok THEN 0 ELSE 1))
            /\ sheet' =
                 update_status(
                    IF written
                    THEN [sheet EXCEPT
                            ![CurRow].result =
                                ResultCells(data, start_time, end_time),
                            ![CurRow].start = start_time]
                    ELSE sheet,
                    CurRow, saving_status(written), ok)
        /\ calls' = TermCall(Bump(calls, CurRow, "write"), CurRow, ok)
    /\ pc' = "cleanup"
    /\ UNCHANGED <<clock, fundamentos, cache, chat_session, thread, sheet0,
                   scanned,
                   pending_rows, cur, exc>>
    /\ UNCHANGED <<jobVars, retryVars>>

\* variant: the handler only logs the error
JobExcept_log_only ==
    /\ pc = "job_except"
    /\ pc' = "cleanup"
    /\ UNCHANGED <<clock, fundamentos, cache, chat_session, thread, exc,
                   faults>>
    /\ UNCHANGED <<jobVars, sheetVars, retryVars>>

\* `except Exception as e` of process_single_case:
\* update_status(row_idx, f"ERROR: {str(e)[:50]}")
JobExcept ==
    /\ pc = "job_except"
    /\ \E ok \in BOOLEAN :
        /\ Fail(IF ok THEN 0 ELSE 1)
        /\ sheet' = update_status(sheet, CurRow, ErrorStatus(exc), ok)
        /\ calls' = TermCall(Bump(calls, CurRow, "seterr"), CurRow, ok)
    /\ pc' = "cleanup"
    /\ UNCHANGED <<clock, fundamentos, cache, chat_session, thread, sheet0,
                   scanned,
                   pending_rows, cur, exc>>
    /\ UNCHANGED <<jobVars, retryVars>>

\* variant: run() stops after the first case
after_case_stop(k) == "done"

\* variant: the cache is prepared again before every further case
after_case_recreate(k) ==
    IF k < Len(pending_rows) THEN "ensure_cache" ELSE "done"

\* variant: after the last case the worksheet is scanned again
after_case_rescan(k) ==
    IF k < Len(pending_rows) THEN "job_start" ELSE "get_pending"

\* where run() goes after process_single_case returned for pending_rows[k]
after_case(k) ==
    IF k < Len(pending_rows) THEN "job_start" ELSE "done"

\* variant: a new chat is started for every job
Cleanup_new_chat ==
    /\ pc = "cleanup"
    /\ temp_dirs' = rmtree(temp_dirs, CurRow)
    /\ pc' = after_case(cur)
    /\ cur' = IF after_case(cur) = "job_start" THEN cur + 1 ELSE cur
    /\ roleIdx' = 0
    /\ patient_pdfs' = <<>>
    /\ step' = 0
    /\ message' = NoMessage
    /\ send_i' = 0
    /\ sleeps' = <<>>
    /\ response' = NoResponse
    /\ exc' = NoExc
    /\ thread' = <<>>
    /\ UNCHANGED <<clock, fundamentos, cache, chat_session, sheet, sheet0,
                   scanned, pending_rows, calls, faults>>
    /\ UNCHANGED retryVars

\* `finally: shutil.rmtree(temp_dir)`, then the next iteration of
\* `for row in pending_rows`
Cleanup ==
    /\ pc = "cleanup"
    /\ temp_dirs' = rmtree(temp_dirs, CurRow)
    /\ pc' = after_case(cur)
    /\ cur' = IF after_case(cur) = "job_start" THEN cur + 1 ELSE cur
    /\ roleIdx' = 0
    /\ patient_pdfs' = <<>>
    /\ step' = 0
    /\ message' = NoMessage
    /\ send_i' = 0
    /\ sleeps' = <<>>
    /\ response' = NoResponse
    /\ exc' = NoExc
    /\ UNCHANGED <<clock, fundamentos, cache, chat_session, thread, sheet,
                   sheet0,
                   scanned, pending_rows, calls, faults>>
    /\ UNCHANGED retryVars

----------------------------------------------------------------------------
Next ==
    \/ EnsureFundamentosCache
    \/ CreateCacheAttempt
    \/ InitializeSession
    \/ GetPendingRows
    \/ MarkProcessingStart
    \/ SkipDoc
    \/ BeginDownload
    \/ GetFileMetadataAttempt
    \/ DownloadAttempt
    \/ DocExcept
    \/ CheckDocs
    \/ FetchPrompt
    \/ SendAttempt
    \/ UploadResult
    \/ WriteGradingResults
    \/ JobExcept
    \/ Cleanup

Spec == Init /\ [][Next]_vars

----------------------------------------------------------------------------
(* The run under a KeyboardInterrupt, which main() catches *)

\* positions inside the try block of process_single_case
InTry ==
    {"doc", "meta", "body", "doc_except", "check_docs", "fetch_prompt", "send",
     "upload", "write_results", "job_except"}

\* positions at which the run is over
EndPcs == {"done", "aborted", "crashed", "interrupted"}

\* variant: the handler of process_single_case catches the interrupt too,
\* and the run stops after the job
Interrupt_handled ==
    /\ pc \notin EndPcs
    /\ pc' = "interrupted"
    /\ exc' = Exc("KeyboardInterrupt", Msg(pc, 0))
    /\ IF pc \in InTry
       THEN /\ temp_dirs' = rmtree(temp_dirs, CurRow)
            /\ sheet' = update_status(sheet, CurRow,
                                      ErrorStatus(Exc("KeyboardInterrupt",
                                                      Msg("", 0))), TRUE)
       ELSE UNCHANGED <<temp_dirs, sheet>>
    /\ roleIdx' = 0
    /\ patient_pdfs' = <<>>
    /\ step' = 0
    /\ message' = NoMessage
    /\ send_i' = 0
    /\ sleeps' = <<>>
    /\ response' = NoResponse
    /\ attempt' = 0
    /\ waits' = <<>>
    /\ meta_attempt' = 0
    /\ meta_waits' = <<>>
    /\ UNCHANGED <<clock, fundamentos, cache, chat_session, thread, sheet0,
                   scanned, pending_rows, cur, calls, faults>>

\* KeyboardInterrupt raised at the current position: no `except Exception`
\* catches it, a finally clause that was entered runs, main() prints and
\* returns.  temp_dir is made before the try block is entered and removed by
\* the rmtree of the finally clause: an interrupt between mkdtemp and `try`,
\* or in the finally clause before rmtree is done, leaves it.
Interrupt ==
    /\ pc \notin EndPcs
    /\ pc' = "interrupted"
    /\ exc' = Exc("KeyboardInterrupt", Msg(pc, 0))
    /\ \E left \in BOOLEAN :
        temp_dirs' =
            IF pc \in InTry THEN rmtree(temp_dirs, CurRow)
            ELSE IF pc = "job_start" /\ left THEN mkdtemp(temp_dirs, CurRow)
            ELSE IF pc = "cleanup" /\ ~left THEN rmtree(temp_dirs, CurRow)
            ELSE temp_dirs
    /\ roleIdx' = 0
    /\ patient_pdfs' = <<>>
    /\ step' = 0
    /\ message' = NoMessage
    /\ send_i' = 0
    /\ sleeps' = <<>>
    /\ response' = NoResponse
    /\ attempt' = 0
    /\ waits' = <<>>
    /\ meta_attempt' = 0
    /\ meta_waits' = <<>>
    /\ UNCHANGED <<clock, fundamentos, cache, chat_session, thread, sheet,
                   sheet0, scanned, pending_rows, cur, calls, faults>>

NextInt ==
    \/ EnsureFundamentosCache
    \/ CreateCacheAttempt
    \/ InitializeSession
    \/ GetPendingRows
    \/ MarkProcessingStart
    \/ SkipDoc
    \/ BeginDownload
    \/ GetFileMetadataAttempt
    \/ DownloadAttempt
    \/ DocExcept
    \/ CheckDocs
    \/ FetchPrompt
    \/ SendAttempt
    \/ UploadResult
    \/ WriteGradingResults
    \/ JobExcept
    \/ Cleanup
    \/ Interrupt

SpecInt == Init /\ [][NextInt]_vars

----------------------------------------------------------------------------
(* The run over a worksheet that holds one pending row, with documents of  *)
(* every kind, above rows that were completed by an earlier run             *)

\* a row that an earlier run completed
DoneRow == Row(COMPLETED, Links(EmptyUrl, DocUrl, EmptyUrl, DocUrl))

\* the pending row: its documents
DocInputs ==
    { Row(PENDING, Links(EmptyUrl, TxtUrl, EmptyUrl, ZipUrl)),
      Row(PENDING, Links(ShortUrl, DocUrl, OtherUrl, DocxUrl)),
      Row(PENDING, Links(MidUrl, PdfUrl, FolderUrl, TxtUrl)) }

DocSheets ==
    { sh \in [Rows -> DocInputs \cup {HeaderRow, DoneRow}] :
        /\ sh[1] = HeaderRow
        /\ sh[2] \in DocInputs
        /\ \A r \in Rows \ {1, 2} : sh[r] = DoneRow }

InitDocs ==
    /\ pc = "ensure_cache"
    /\ fundamentos \in {"absent", "empty", "ok"}
    /\ cache = "none"
    /\ chat_session = FALSE
    /\ sheet \in DocSheets
    /\ sheet0 = sheet
    /\ scanned = FALSE
    /\ pending_rows = <<>>
    /\ cur = 0
    /\ roleIdx = 0
    /\ patient_pdfs = <<>>
    /\ temp_dirs = <<>>
    /\ attempt = 0
    /\ waits = <<>>
    /\ meta_attempt = 0
    /\ meta_waits = <<>>
    /\ step = 0
    /\ message = NoMessage
    /\ send_i = 0
    /\ sleeps = <<>>
    /\ thread = <<>>
    /\ response = NoResponse
    /\ exc = NoExc
    /\ calls = [r \in Rows |-> NoCalls]
    /\ faults = 0
    /\ clock = 0

SpecDocs == InitDocs /\ [][Next]_vars

----------------------------------------------------------------------------
(* The run over a worksheet with rows of every kind the scan tells apart   *)

NoLinks == Links(EmptyUrl, EmptyUrl, EmptyUrl, EmptyUrl)

\* a row that ends before column C: it has no status cell
ShortRow == [Row(Status(""), NoLinks) EXCEPT !.cols = COL_STATUS - 1]

\* a pending row that ends with column C: it has no link cell
NarrowRow == [Row(PENDING, NoLinks) EXCEPT !.cols = COL_STATUS]

\* a row that an earlier run left in PROCESSING
StaleRow == Row(PROCESSING, Links(EmptyUrl, DocUrl, EmptyUrl, DocUrl))

\* a row whose status is the sentinel in another case
LowerRow ==
    Row(Status("pending processing"), Links(EmptyUrl, DocUrl, EmptyUrl, DocUrl))

KindInputs ==
    { Row(PENDING, Links(ShortUrl, DocUrl, OtherUrl, DocxUrl)),
      Row(PADDED, Links(EmptyUrl, DocUrl, EmptyUrl, EmptyUrl)),
      ShortRow, NarrowRow, StaleRow, LowerRow, DoneRow }

KindSheets ==
    { sh \in [Rows -> KindInputs \cup {HeaderRow}] :
        /\ sh[1] = HeaderRow
        /\ \A r \in Rows \ {1} : sh[r] \in KindInputs }

InitKinds ==
    /\ pc = "ensure_cache"
    /\ fundamentos \in {"absent", "empty", "ok"}
    /\ cache = "none"
    /\ chat_session = FALSE
    /\ sheet \in KindSheets
    /\ sheet0 = sheet
    /\ scanned = FALSE
    /\ pending_rows = <<>>
    /\ cur = 0
    /\ roleIdx = 0
    /\ patient_pdfs = <<>>
    /\ temp_dirs = <<>>
    /\ attempt = 0
    /\ waits = <<>>
    /\ meta_attempt = 0
    /\ meta_waits = <<>>
    /\ step = 0
    /\ message = NoMessage
    /\ send_i = 0
    /\ sleeps = <<>>
    /\ thread = <<>>
    /\ response = NoResponse
    /\ exc = NoExc
    /\ calls = [r \in Rows |-> NoCalls]
    /\ faults = 0
    /\ clock = 0

SpecKinds == InitKinds /\ [][Next]_vars

----------------------------------------------------------------------------
(* process_single_case called by a client for every row of a list of ready *)
(* rows, on a ChatService that was or was not initialized                   *)

ReadyInputs ==
    { row \in RowInputs : is_pending(row) /\ ~main_link_missing(row) }

InitCase ==
    /\ pc = "job_start"
    /\ fundamentos = "ok"
    /\ chat_session \in BOOLEAN
    /\ cache = IF chat_session THEN "created" ELSE "none"
    /\ sheet \in { sh \in SheetInputs :
                     \A r \in Rows \ {1} : sh[r] \in ReadyInputs }
    /\ sheet0 = sheet
    /\ scanned = TRUE
    /\ pending_rows = SelectSeq(RowIndices, LAMBDA r : r # 1)
    /\ cur = 1
    /\ roleIdx = 0
    /\ patient_pdfs = <<>>
    /\ temp_dirs = <<>>
    /\ attempt = 0
    /\ waits = <<>>
    /\ meta_attempt = 0
    /\ meta_waits = <<>>
    /\ step = 0
    /\ message = NoMessage
    /\ send_i = 0
    /\ sleeps = <<>>
    /\ thread = <<>>
    /\ response = NoResponse
    /\ exc = NoExc
    /\ calls = [r \in Rows |-> NoCalls]
    /\ faults = 0
    /\ clock = 0

NextCase ==
    \/ MarkProcessingStart
    \/ SkipDoc
    \/ BeginDownload
    \/ GetFileMetadataAttempt
    \/ DownloadAttempt
    \/ DocExcept
    \/ CheckDocs
    \/ FetchPrompt
    \/ SendAttempt
    \/ UploadResult
    \/ WriteGradingResults
    \/ JobExcept
    \/ Cleanup

SpecCase == InitCase /\ [][NextCase]_vars

----------------------------------------------------------------------------
(* Vocabulary of the properties *)

Selected == {pending_rows[k] : k \in 1..Len(pending_rows)}

\* process_single_case has returned for row r
Finished(r) ==
    \E k \in 1..Len(pending_rows) :
        pending_rows[k] = r /\ (k < cur \/ pc = "done")

IsTerminal(status) ==
    status.s \in {"COMPLETED", "ERROR: ", "ERROR SAVING RESULTS",
                  "ERROR: MAIN LINK MISSING"}

\* the messages of the thread that belong to row r, in order
RowThread(r) == SelectSeq(thread, LAMBDA e : e.row = r)

\* the rows that were pending with a main link missing when the run began
Rejected0 ==
    { r \in Rows \ {1} :
        /\ sheet0[r].status = PENDING
        /\ \/ sheet0[r].links["transcript"] = EmptyUrl
           \/ sheet0[r].links["summary"] = EmptyUrl }

NoJobCalls(c) ==
    /\ c.mark = 0 /\ c.norm = 0 /\ c.pdf = 0 /\ c.flow = 0 /\ c.send = 0
    /\ c.upload = 0 /\ c.write = 0 /\ c.seterr = 0

----------------------------------------------------------------------------
(* C1 *)

\* C1 as stated: when the run finishes, every selected job of which at
\* least one document was normalized has a terminal status (COMPLETED or
\* an ERROR variant), never PENDING PROCESSING or PROCESSING.
C1_AlwaysTerminal ==
    pc = "done" =>
        \A r \in Selected :
            calls[r].pdf > 0 => IsTerminal(sheet[r].status)

\* C1 amended: when the run finishes, for every selected job of which at
\* least one document was normalized exactly one final status write was
\* made (COMPLETED, ERROR SAVING RESULTS or ERROR: <message>); the status is
\* terminal if that write succeeded, and otherwise it is still what
\* mark_started left: PROCESSING, or PENDING PROCESSING.
C1_TerminalIfWritten ==
    pc = "done" =>
        \A r \in Selected :
            calls[r].pdf > 0 =>
                /\ calls[r].term = 1
                /\ calls[r].termOk => IsTerminal(sheet[r].status)
                /\ ~calls[r].termOk => sheet[r].status \in {PROCESSING, sheet0[r].status}

C1_Witness ==
    /\ pc = "done"
    /\ \E r1, r2 \in Selected :
        /\ calls[r1].pdf > 0 /\ sheet[r1].status = COMPLETED
        /\ calls[r2].pdf > 0 /\ sheet[r2].status.s = "ERROR: "

----------------------------------------------------------------------------
(* C2 *)

\* C2 as stated: a pending row with an empty transcript or summary link is
\* not returned by the scan, its status is ERROR: MAIN LINK MISSING, and no
\* mark_started, normalization or AI call is made for it.
C2_RejectedMarked ==
    scanned =>
        \A r \in Rejected0 :
            /\ r \notin Selected
            /\ sheet[r].status = MAIN_LINK_MISSING
            /\ NoJobCalls(calls[r])

\* C2 amended: such a row is not returned by the scan and the write of
\* ERROR: MAIN LINK MISSING is made once for it; the status is that value
\* if the write succeeded and stays PENDING PROCESSING if it failed; in
\* both cases no mark_started, normalization or AI call is made for it.
C2_RejectedExcluded ==
    /\ \A r \in Rejected0 : NoJobCalls(calls[r])
    /\ scanned =>
        \A r \in Rejected0 :
            /\ r \notin Selected
            /\ calls[r].term = 1
            /\ calls[r].termOk => sheet[r].status = MAIN_LINK_MISSING
            /\ ~calls[r].termOk => sheet[r].status = PENDING

C2_Witness ==
    /\ pc = "done"
    /\ Selected # {}
    /\ \E r \in Rejected0 :
        /\ sheet0[r].links["transcript"] # EmptyUrl
        /\ sheet[r].status = MAIN_LINK_MISSING

----------------------------------------------------------------------------
(* C3 *)

\* C3: as long as the knowledge cache or the chat session is missing, and
\* for good once their setup has failed, the worksheet is not scanned, no
\* row is changed and no normalization or AI send is made.
C3_FatalSetup ==
    (pc = "aborted" \/ cache # "created" \/ ~chat_session) =>
        /\ ~scanned
        /\ sheet = sheet0
        /\ pending_rows = <<>>
        /\ thread = <<>>
        /\ \A r \in Rows : calls[r] = NoCalls

C3_Witness ==
    /\ pc = "aborted"
    /\ cache = "created"
    /\ exc.type = "HttpError"
    /\ \E r \in Rows : r # 1 /\ sheet[r].status = PENDING
                             /\ ~main_link_missing(sheet[r])

----------------------------------------------------------------------------
(* C4 *)

\* C4: an exception that reaches the handler of a job makes the runner call
\* set_error for that job with the (truncated) message of the exception and
\* go on: after each job the next one of the list is started, so that at
\* the end of the run every job of the list has been started once.
C4_Step ==
    /\ pc = "job_except" =>
        /\ pc' = "cleanup"
        /\ calls'[CurRow].seterr = calls[CurRow].seterr + 1
        /\ sheet'[CurRow].status = ErrorStatus(exc) \/ sheet' = sheet
    /\ (pc = "cleanup" /\ cur < Len(pending_rows)) =>
        /\ pc' = "job_start"
        /\ cur' = cur + 1
    /\ pc = "job_start" => calls'[CurRow].mark = 1
    /\ pc' = "done" => \A r \in Selected : calls'[r].mark = 1

----------------------------------------------------------------------------
(* C5 *)

DeclaredPrompts ==
    << "URL_PROMPT_QUALIFYING", "URL_PROMPT_GFM", "URL_PROMPT_JOINT_RESIDENCE",
       "URL_PROMPT_GMC_PB", "URL_PROMPT_ABUSE", "URL_PROMPT_AUDITORIA" >>

\* C5: the prompts answered for a job are the six configured steps in the
\* declared order; a step is sent only when all steps before it were
\* answered; attachments are on the first step's message and on no other.
C5_StepOrder ==
    /\ \A r \in Rows :
        /\ Len(RowThread(r)) <= 6
        /\ \A k \in 1..Len(RowThread(r)) :
            /\ RowThread(r)[k].step = k
            /\ RowThread(r)[k].prompt = DeclaredPrompts[k]
            /\ RowThread(r)[k].parts # <<>> <=> k = 1
    /\ pc = "send" =>
        /\ step \in 1..6
        /\ Len(RowThread(CurRow)) = step - 1
        /\ message.prompt = DeclaredPrompts[step]
        /\ message.parts = (IF step = 1 THEN patient_pdfs ELSE <<>>)
        /\ patient_pdfs # <<>>

C5_Witness ==
    \E r \in Rows : Len(RowThread(r)) = 6 /\ Finished(r)

----------------------------------------------------------------------------
(* C6 *)

\* C6 as stated: a job of which no document was normalized ends with status
\* ERROR: <message of the no-documents error> and without AI send, upload or
\* write_result.
C6_NoDocsError ==
    \A r \in Rows :
        (Finished(r) /\ calls[r].pdf = 0) =>
            /\ sheet[r].status = ErrorStatus(NoDocumentsError)
            /\ calls[r].flow = 0 /\ calls[r].send = 0
            /\ calls[r].upload = 0 /\ calls[r].write = 0

\* C6 amended: for such a job set_error is called once with the message of
\* the no-documents error (cut to 50 characters); the status is that ERROR
\* status if the write succeeded and otherwise stays what mark_started
\* left; no AI send, upload or write_result is made for the job.
C6_NoDocsErrorIfWritten ==
    \A r \in Rows :
        (Finished(r) /\ calls[r].pdf = 0) =>
            /\ calls[r].seterr = 1 /\ calls[r].term = 1
            /\ calls[r].termOk =>
                sheet[r].status = ErrorStatus(NoDocumentsError)
            /\ ~calls[r].termOk => sheet[r].status \in {PROCESSING, sheet0[r].status}
            /\ calls[r].flow = 0 /\ calls[r].send = 0
            /\ calls[r].upload = 0 /\ calls[r].write = 0

C6_Witness ==
    \E r \in Rows :
        /\ Finished(r)
        /\ calls[r].norm >= 2 /\ calls[r].pdf = 0
        /\ sheet[r].status = ErrorStatus(NoDocumentsError)

----------------------------------------------------------------------------
(* C7 *)

PlausibleRoles(r) ==
    {k \in 1..Len(Roles) : Plausible(sheet[r].links[Roles[k]])}

\* C7: a failed normalization leaves the job running: the loop goes on with
\* the next role and keeps the documents it has; at the end of the loop
\* every plausible role was attempted; the no-documents error is raised
\* only with no document at all, and with one or more the review starts.
C7_Step ==
    /\ pc = "doc_except" =>
        /\ cur' = cur
        /\ patient_pdfs' = patient_pdfs
        /\ IF roleIdx < 7
           THEN pc' = "doc" /\ roleIdx' = roleIdx + 1
           ELSE pc' = "check_docs"
    /\ pc' = "check_docs" =>
        calls'[CurRow].norm = Cardinality(PlausibleRoles(CurRow))
    /\ pc = "check_docs" =>
        IF patient_pdfs = <<>>
        THEN pc' = "job_except" /\ exc' = NoDocumentsError
        ELSE pc' = "fetch_prompt" /\ step' = 1 /\ calls'[CurRow].flow = 1

C7_DocumentFailureIsLocal == [][C7_Step]_vars

C7_Witness ==
    /\ pc = "send"
    /\ calls[CurRow].norm = 3
    /\ calls[CurRow].pdf = 1

----------------------------------------------------------------------------
(* C8 *)

\* the delays tenacity makes between five attempts
ExpectedWaits == <<1, 2, 4, 8>>

WaitsOk(n, w) ==
    /\ n <= MAX_RETRIES
    /\ n > 0 => Len(w) = n - 1
    /\ w = SubSeq(ExpectedWaits, 1, Len(w))
    /\ \A k \in 1..Len(w) : w[k] <= RETRY_MAX_WAIT
    /\ \A k \in 1..(Len(w) - 1) : w[k] <= w[k + 1]

\* C8: a retry-wrapped call (create_cache, get_file_metadata,
\* download_as_pdf) gives up exactly at its fifth failed attempt; the delays
\* between the attempts are 1, 2, 4, 8 seconds: they start at 1, never
\* decrease and never exceed 60.
C8_RetryCeiling ==
    /\ WaitsOk(attempt, waits)
    /\ WaitsOk(meta_attempt, meta_waits)
    /\ exc.type = "RetryError" =>
        IF exc.msg.m = "get_file_metadata"
        THEN meta_attempt = 5 /\ meta_waits = ExpectedWaits
        ELSE attempt = 5 /\ waits = ExpectedWaits

C8_Witness ==
    /\ pc = "doc_except"
    /\ exc = RetryError("download_as_pdf")
    /\ attempt = 5

----------------------------------------------------------------------------
(* C9 *)

SendGaveUp == pc = "job_except" /\ exc.type = "GoogleAPIError"

\* C9 as stated: before a send error is propagated the send was retried 3
\* times, after delays of 1, 2 and 4 seconds.
C9_ThreeRetries == SendGaveUp => sleeps = <<1, 2, 4>>

\* C9 amended: a send is attempted at most 3 times in all (2 retries),
\* after delays of 1 and 2 seconds; the third failure is propagated at once,
\* with no further delay.
C9_ThreeAttempts ==
    /\ pc = "send" =>
        /\ send_i \in 0..2
        /\ sleeps = SubSeq(<<1, 2>>, 1, send_i)
    /\ SendGaveUp => send_i = 2 /\ sleeps = <<1, 2>>

C9_Witness == SendGaveUp /\ sleeps = <<1, 2>>

----------------------------------------------------------------------------
(* C10 *)

\* C10: a first and a second failure of a send never reach the job; when
\* the third attempt is answered the step has succeeded: the review goes on
\* with the next step (or returns after the last), no exception is raised
\* and set_error is not called.
C10_Step ==
    /\ (pc = "send" /\ send_i < 2) => pc' # "job_except"
    /\ (pc = "send" /\ send_i = 2 /\ Len(thread') = Len(thread) + 1) =>
        /\ exc' = NoExc
        /\ calls'[CurRow].seterr = 0
        /\ IF step < 6
           THEN pc' = "fetch_prompt" /\ step' = step + 1
           ELSE pc' = "upload"

C10_ThirdAttemptSucceeds == [][C10_Step]_vars

C10_Witness ==
    /\ pc = "fetch_prompt"
    /\ step = 2
    /\ sleeps = <<1, 2>>
    /\ Len(RowThread(CurRow)) = 1

----------------------------------------------------------------------------
(* C11 *)

\* exception types of transient failures of the remote services
TransientTypes == {"HttpError", "GoogleAPIError", "APIError", "RetryError"}

\* positions at which a write to the worksheet is made
SheetWritePcs == {"get_pending", "job_start", "write_results", "job_except"}

\* the delays the call at the current position has made before this attempt
BackoffOf ==
    CASE pc = "send" -> sleeps
      [] pc = "meta" -> meta_waits
      [] pc \in {"body", "create_cache"} -> waits
      [] OTHER -> <<>>

\* C11 as stated: a transient failure of a remote call (document fetch,
\* prompt or preamble fetch, AI send, worksheet read or write, upload) is
\* surfaced, as an exception or as a logged failure, only after the call
\* was retried with backoff; one failure never fails the job or the run.
C11_Step ==
    ( \/ exc' # exc /\ exc'.type \in TransientTypes
      \/ faults' > faults /\ pc \in SheetWritePcs )
        => BackoffOf # <<>>

C11_TransientRetried == [][C11_Step]_vars

\* a job whose documents were fetched fails at the first failure of the
\* fetch of its first prompt
C11_Witness ==
    /\ pc = "job_except"
    /\ exc = Exc("HttpError", HttpMsg)
    /\ calls[CurRow].pdf > 0
    /\ calls[CurRow].send = 0
    /\ faults = 1

----------------------------------------------------------------------------
(* C12 *)

\* write_grading_results was called for row r and its write of K..R failed
WriteBackFailed(r) == calls[r].write = 1 /\ sheet[r].result = NoResult

\* C12 as stated: when the write-back of the results fails after review and
\* upload, the status of the job is ERROR SAVING RESULTS, the failure does
\* not reach the handler of the job and set_error is not called.
C12_ErrorSavingSet ==
    \A r \in Rows :
        WriteBackFailed(r) =>
            /\ sheet[r].status = ERROR_SAVING
            /\ calls[r].seterr = 0
            /\ ~(pc = "job_except" /\ CurRow = r)

\* C12 amended: when the write-back fails, the write of ERROR SAVING RESULTS
\* is attempted once: the status is that value if the write succeeded and
\* stays what mark_started left if it failed too; in both cases the failure
\* does not reach the handler of the job and set_error is not called.
C12_ErrorSavingAttempted ==
    \A r \in Rows :
        WriteBackFailed(r) =>
            /\ calls[r].upload = 1 /\ Len(RowThread(r)) = 6
            /\ calls[r].term = 1
            /\ calls[r].termOk => sheet[r].status = ERROR_SAVING
            /\ ~calls[r].termOk => sheet[r].status \in {PROCESSING, sheet0[r].status}
            /\ calls[r].seterr = 0
            /\ ~(pc = "job_except" /\ CurRow = r)

C12_Witness ==
    \E r \in Rows :
        /\ Finished(r)
        /\ WriteBackFailed(r)
        /\ calls[r].upload = 1
        /\ sheet[r].status = ERROR_SAVING

----------------------------------------------------------------------------
(* C13 *)

\* C13 as stated: for a job that reached COMPLETED the duration written is
\* the end time minus the start time mark_started recorded, and the start
\* column still holds that start time.
C13_DurationFromStart ==
    \A r \in Rows :
        (calls[r].write = 1 /\ sheet[r].status = COMPLETED) =>
            /\ sheet[r].result.duration =
                   duration_minutes(calls[r].started, sheet[r].result.end)
            /\ sheet[r].start = calls[r].started

\* a completed job whose review took time: duration 0 is written and the
\* start column holds the end time
C13_Witness ==
    \E r \in Rows :
        /\ calls[r].write = 1 /\ sheet[r].status = COMPLETED
        /\ sheet[r].result.end > calls[r].started
        /\ sheet[r].result.duration = 0
        /\ sheet[r].start = sheet[r].result.end

----------------------------------------------------------------------------
(* C14 *)

\* rows for which execute_grading_flow was called
FlowRows == {r \in Rows : calls[r].flow > 0}

LastFlowRow == CHOOSE r \in FlowRows : \A q \in FlowRows : q <= r

\* the state of the review session in the words of the state machine:
\* uninitialized until a chat session exists, ready until the first call of
\* execute_grading_flow, running during a call, then completed or failed as
\* the last call returned or raised
SessionState ==
    IF ~chat_session THEN "uninitialized"
    ELSE IF pc \in {"fetch_prompt", "send"} THEN "running"
    ELSE IF FlowRows = {} THEN "ready"
    ELSE IF Len(RowThread(LastFlowRow)) = 6 THEN "completed"
    ELSE "failed"

\* execute_grading_flow is called in this step
FlowCalled == pc = "check_docs" /\ patient_pdfs # <<>>

\* C14 as stated: execute_grading_flow is accepted only in state ready; in
\* every other state it raises the state error and no prompt is sent.
C14_ReadyOnly_Step ==
    FlowCalled =>
        IF SessionState = "ready"
        THEN pc' = "fetch_prompt"
        ELSE pc' = "job_except" /\ exc' = SessionError /\ thread' = thread

C14_ReadyOnly == [][C14_ReadyOnly_Step]_vars

\* C14 amended: execute_grading_flow raises the state error, and sends no
\* prompt, exactly when the session was never initialized; on an initialized
\* session it is accepted and starts with the first step, also when an
\* earlier call on the same session completed or failed.
C14_Step ==
    /\ ~chat_session => thread' = <<>>
    /\ FlowCalled =>
        IF SessionState = "uninitialized"
        THEN /\ pc' = "job_except" /\ exc' = SessionError
             /\ calls'[CurRow].send = 0
        ELSE /\ SessionState \in {"ready", "completed", "failed"}
             /\ pc' = "fetch_prompt" /\ step' = 1 /\ exc' = exc

C14_InitializedOnly == [][C14_Step]_vars

C14_Witness ==
    /\ pc = "job_except"
    /\ exc = SessionError
    /\ SessionState = "uninitialized"
    /\ calls[CurRow].pdf > 0

----------------------------------------------------------------------------
(* C15 *)

\* C15: after the sixth step of a review the text and the token counts that
\* execute_grading_flow returns are those of the answer to the sixth step
\* alone; the deliverable uploaded is that text and the token columns written
\* for the job hold those counts, not sums over the steps.
C15_LastStepOnly ==
    /\ pc \in {"upload", "write_results"} =>
        /\ Len(RowThread(CurRow)) = 6
        /\ final_text(response) = [row |-> CurRow, step |-> 6]
        /\ response.input = RowThread(CurRow)[6].usage.prompt_token_count
        /\ response.output = RowThread(CurRow)[6].usage.candidates_token_count
    /\ \A r \in Rows :
        sheet[r].result # NoResult =>
            LET last == RowThread(r)[6].usage
            IN  /\ sheet[r].result.grading_url = [row |-> r, step |-> 6]
                /\ sheet[r].result.tokens_in = last.prompt_token_count
                /\ sheet[r].result.tokens_out = last.candidates_token_count

\* two jobs completed: the counts of the second are those of its own last
\* answer on the shared thread
C15_Witness ==
    /\ pc = "done"
    /\ \E r \in Rows :
        /\ sheet[r].status = COMPLETED
        /\ Len(thread) = 12
        /\ thread[12].row = r
        /\ sheet[r].result.tokens_in = 120
        /\ sheet[r].result.tokens_out = 6

----------------------------------------------------------------------------
(* C16 *)

\* the review of row r was started and has ended before its sixth answer
ReviewFailed(r) ==
    Finished(r) /\ calls[r].flow = 1 /\ Len(RowThread(r)) < 6

\* the statuses set_error makes of the failure of a prompt fetch or a send
StepErrorStatuses ==
    { ErrorStatus(Exc("HttpError", HttpMsg)),
      ErrorStatus(Exc("GoogleAPIError", QuotaMsg)) }

\* no step after the failed one was sent, nothing was uploaded or written
Discarded(r) ==
    /\ calls[r].send \in {Len(RowThread(r)), Len(RowThread(r)) + 1}
    /\ calls[r].upload = 0 /\ calls[r].write = 0
    /\ sheet[r].result = NoResult

\* C16 as stated: a review stops at the first step whose prompt fetch or
\* send fails for good: no later step is sent, nothing is uploaded or
\* written for the job, and the job ends with status ERROR: <message>.
C16_FailedReviewError ==
    \A r \in Rows :
        ReviewFailed(r) =>
            Discarded(r) /\ sheet[r].status \in StepErrorStatuses

\* C16 amended: a review stops at the first step whose prompt fetch or send
\* fails for good: no later step is sent, nothing is uploaded or written,
\* and set_error is called once with the message of the failure; the status
\* is ERROR: <message> if that write succeeded and otherwise stays what
\* mark_started left.
C16_FailedReviewDiscarded ==
    /\ (pc = "job_except" /\ calls[CurRow].flow = 1
                           /\ calls[CurRow].upload = 0) =>
            Len(RowThread(CurRow)) < 6 /\ Discarded(CurRow)
    /\ \A r \in Rows :
        ReviewFailed(r) =>
            /\ Discarded(r)
            /\ calls[r].seterr = 1 /\ calls[r].term = 1
            /\ calls[r].termOk => sheet[r].status \in StepErrorStatuses
            /\ ~calls[r].termOk => sheet[r].status \in {PROCESSING, sheet0[r].status}

\* a review that failed at its third step, after two answers
C16_Witness ==
    \E r \in Rows :
        /\ ReviewFailed(r)
        /\ Len(RowThread(r)) = 2
        /\ calls[r].send = 3
        /\ sheet[r].status = ErrorStatus(Exc("GoogleAPIError", QuotaMsg))

----------------------------------------------------------------------------
(* C17 *)

\* C17: the chat session is created once and never replaced; its thread
\* only grows, by the one message each send exchanges, and holds as many
\* messages as were answered in the run; when the first step of a job is
\* sent, the thread holds every message answered for the jobs before it.
C17_Step ==
    /\ chat_session => chat_session'
    /\ chat_session' # chat_session => pc = "init_session" /\ thread' = <<>>
    /\ thread' # thread =>
        /\ pc = "send"
        /\ Len(thread') = Len(thread) + 1
        /\ SubSeq(thread', 1, Len(thread)) = thread
        /\ thread'[Len(thread')].row = CurRow
    /\ Len(thread) = clock
    /\ (pc = "send" /\ step = 1) =>
        /\ \A k \in 1..(cur - 1) :
            Len(RowThread(pending_rows[k])) = calls[pending_rows[k]].answered
        /\ RowThread(CurRow) = <<>>

C17_OneThread == [][C17_Step]_vars

\* the first step of the second job is sent on the thread that holds the six
\* messages of the first job
C17_Witness ==
    /\ pc = "send" /\ step = 1 /\ cur = 2
    /\ Len(thread) = 6
    /\ \A k \in 1..6 : thread[k].row = pending_rows[1]

----------------------------------------------------------------------------
(* C18 *)

SetupPcs == {"ensure_cache", "create_cache", "init_session"}

\* C18: the cache is created at most once and the session initialized at
\* most once in a run, the cache first; the worksheet is scanned, and a job
\* started or reviewed, only after both: in every run that scans the
\* worksheet each was made exactly once, and the setup is never entered
\* again.
C18_Step ==
    /\ cache' # cache =>
        /\ pc = "create_cache" /\ cache = "none" /\ cache' = "created"
        /\ ~chat_session /\ ~scanned
    /\ chat_session' # chat_session =>
        /\ pc = "init_session" /\ ~chat_session /\ chat_session'
        /\ cache = "created" /\ ~scanned
    /\ pc \notin SetupPcs => pc' \notin SetupPcs
    /\ (scanned' \/ pc' \notin (SetupPcs \cup {"aborted"})) =>
        cache' = "created" /\ chat_session'
    /\ (\E r \in Rows : calls'[r] # NoCalls) =>
        cache' = "created" /\ chat_session' /\ scanned'

C18_SetupOnceBeforeJobs == [][C18_Step]_vars

\* the second job of a run is started with the cache and the session of the
\* first
C18_Witness ==
    /\ pc = "job_start" /\ cur = 2
    /\ cache = "created" /\ chat_session /\ scanned
    /\ calls[pending_rows[1]].mark = 1

----------------------------------------------------------------------------
(* C19 *)

\* both mandatory links of row r were non-empty when the run began
MainLinksGiven(r) ==
    /\ sheet0[r].links["transcript"] # EmptyUrl
    /\ sheet0[r].links["summary"] # EmptyUrl

\* pending_rows lists exactly the rows of S, in ascending order
ListsAscending(S) ==
    /\ Selected = S
    /\ \A i, j \in 1..Len(pending_rows) :
        i < j => pending_rows[i] < pending_rows[j]

\* C19 as stated: the scan returns exactly the rows below the header whose
\* status cell equals PENDING PROCESSING and whose two mandatory links are
\* non-empty, in ascending row order; the header row is never returned.
C19_ExactlyPending ==
    scanned =>
        ListsAscending({ r \in Rows \ {1} :
                           sheet0[r].status = PENDING /\ MainLinksGiven(r) })

\* C19 amended: the scan returns exactly the rows below the header whose
\* status cell, with blanks around it trimmed, equals PENDING PROCESSING
\* and whose two mandatory links are non-empty, in ascending row order; the
\* header row is never returned.
C19_ExactlyPendingTrimmed ==
    /\ ~scanned => pending_rows = <<>>
    /\ scanned =>
        ListsAscending({ r \in Rows \ {1} :
                           /\ sheet0[r].status \in {PENDING, PADDED}
                           /\ MainLinksGiven(r) })

\* a scan that returned two rows, one of them with blanks around the sentinel
C19_Witness ==
    /\ scanned
    /\ Len(pending_rows) = 2
    /\ sheet0[pending_rows[1]].status = PADDED
    /\ sheet0[pending_rows[2]].status = PENDING

----------------------------------------------------------------------------
(* C20 *)

\* C20: mark_processing_start writes PROCESSING and the start time of a row
\* together or not at all: a row that shows PROCESSING holds the start time
\* recorded for it, and until the results of a row are written its start
\* cell is set only if its status was changed as well.
C20_Step ==
    /\ pc = "job_start" =>
        \/ sheet' = sheet
        \/ /\ sheet'[CurRow].status = PROCESSING
           /\ sheet'[CurRow].start = clock
           /\ \A r \in Rows \ {CurRow} : sheet'[r] = sheet[r]
    /\ \A r \in Rows :
        /\ sheet[r].status = PROCESSING =>
            /\ sheet[r].start # NoTime
            /\ calls[r].write = 0 => sheet[r].start = calls[r].started
        /\ (sheet[r].start # NoTime /\ calls[r].write = 0) =>
            /\ sheet[r].status # sheet0[r].status
            /\ sheet[r].start = calls[r].started

C20_StartedTogether == [][C20_Step]_vars

\* the second job of a run while it is reviewed: PROCESSING, with a start
\* time later than the beginning of the run
C20_Witness ==
    /\ pc = "send" /\ cur = 2
    /\ sheet[CurRow].status = PROCESSING
    /\ sheet[CurRow].start > 0

----------------------------------------------------------------------------
(* C21 *)

\* the temp_dirs that exist
TempDirs == DOMAIN temp_dirs

\* C21 as stated: the temp_dir of a job is removed on every exit path of
\* process_single_case (return, handled error, exception, interrupt): when
\* the next job is about to start, and when the run has ended, no temp_dir
\* exists, and during a job none of an earlier job does.
C21_TempDirRemoved ==
    /\ pc \in EndPcs \cup {"job_start"} => TempDirs = {}
    /\ pc \in InTry \cup {"cleanup"} => TempDirs = {CurRow}

\* the run was interrupted between mkdtemp and the try block of the second
\* job: the temp_dir of that job is left
C21_Witness ==
    /\ pc = "interrupted"
    /\ exc = Exc("KeyboardInterrupt", Msg("job_start", 0))
    /\ cur = 2
    /\ TempDirs = {CurRow}

----------------------------------------------------------------------------
(* C22 *)

\* the first n roles of row r whose cell is longer than the threshold
LongRoles(r, n) ==
    {k \in 1..n : sheet0[r].links[Roles[k]].len > MIN_URL_LEN}

\* transcript and summary of row r hold a locator, every other cell is empty
ScenarioA(r) ==
    \A role \in RoleSet :
        IF role \in {"transcript", "summary"}
        THEN get_id_from_url(sheet0[r].links[role]) # "None"
        ELSE sheet0[r].links[role] = EmptyUrl

\* C22: download_as_pdf is called for exactly the roles whose cell is
\* non-empty and longer than 5 characters, once for each, in the order of
\* the roles; a job with transcript and summary given and every other link
\* empty has 2 documents normalized, is reviewed in six steps and, when no
\* remote operation fails for good, ends COMPLETED with the link of its
\* deliverable and positive token counts.
C22_NormalizedRoles ==
    /\ pc = "doc" =>
        calls[CurRow].norm = Cardinality(LongRoles(CurRow, roleIdx - 1))
    /\ pc \in {"meta", "body", "doc_except"} =>
        /\ roleIdx \in LongRoles(CurRow, roleIdx)
        /\ calls[CurRow].norm = Cardinality(LongRoles(CurRow, roleIdx))
    /\ \A r \in Rows :
        (calls[r].mark = 1 /\ ~(r = CurRow /\ pc \in {"doc", "meta", "body",
                                                      "doc_except"})) =>
            calls[r].norm = Cardinality(LongRoles(r, Len(Roles)))
    /\ \A r \in Rows :
        (ScenarioA(r) /\ Finished(r)) =>
            /\ calls[r].norm = 2
            /\ faults = 0 =>
                /\ calls[r].pdf = 2
                /\ Len(RowThread(r)) = 6
                /\ sheet[r].status = COMPLETED
                /\ sheet[r].result.grading_url = [row |-> r, step |-> 6]
                /\ sheet[r].result.tokens_in > 0
                /\ sheet[r].result.tokens_out > 0

\* the job of scenario A, completed
C22_Witness ==
    /\ pc = "done"
    /\ ScenarioA(2)
    /\ calls[2].norm = 2 /\ calls[2].pdf = 2
    /\ sheet[2].status = COMPLETED

----------------------------------------------------------------------------
(* C23 *)

\* the forms of a locator that name a file
Resolvable(url) ==
    \/ url.form \in {"d", "folders"}
    \/ url.form = "bare" /\ url.len > 20

\* the names of the files of temp_dir d
FileNames(d) == {f.name : f \in temp_dirs[d]}

\* C23: for a role whose locator matches none of the forms that name a file
\* no metadata, download or export request is made: the call fails before
\* a request is built, nothing is retried, no file is written for the role
\* and the role is not among the documents of the job.
C23_UnresolvableNotFetched ==
    /\ pc \in {"meta", "body"} => Resolvable(CurUrl)
    /\ (pc = "doc_except" /\ ~Resolvable(CurUrl)) =>
        /\ exc.type = "TypeError"
        /\ attempt = 0 /\ waits = <<>>
        /\ meta_attempt = 0 /\ meta_waits = <<>>
    /\ \A d \in TempDirs :
        \A name \in FileNames(d) : Resolvable(sheet0[d].links[name])
    /\ \A k \in 1..Len(patient_pdfs) :
        Resolvable(sheet0[patient_pdfs[k].dir].links[patient_pdfs[k].name])

\* a job with a URL that holds no id and two documents, after its downloads
C23_Witness ==
    /\ pc = "check_docs"
    /\ sheet0[CurRow].links["dair"] = OtherUrl
    /\ calls[CurRow].norm = 3
    /\ FileNames(CurRow) = {"transcript", "summary"}
    /\ faults = 0

----------------------------------------------------------------------------
(* C24 *)

\* the rows of the list that come after the current one
NotStarted == {pending_rows[k] : k \in (cur + 1)..Len(pending_rows)}

\* C24: an interrupt during a job writes nothing: the status of the job
\* stays what it last reached, which before the final status write is
\* PROCESSING if mark_processing_start was written and the cell as it was
\* otherwise, no set_error is made for the job, and every job of the list
\* not yet started keeps its status (PENDING PROCESSING) and has had no
\* call made for it.
C24_Step ==
    (pc \in InTry \cup {"job_start", "cleanup"} /\ pc' = "interrupted") =>
        /\ sheet' = sheet
        /\ calls' = calls
        /\ pc = "job_start" => sheet[CurRow] = sheet0[CurRow]
        /\ pc \in InTry =>
            /\ calls[CurRow].term = 0 /\ calls[CurRow].seterr = 0
            /\ IF sheet[CurRow].start # NoTime
               THEN sheet[CurRow].status = PROCESSING
               ELSE sheet[CurRow].status = sheet0[CurRow].status
        /\ \A r \in NotStarted :
            /\ sheet[r] = sheet0[r]
            /\ is_pending(sheet[r])
            /\ calls[r] = NoCalls

C24_InterruptLeavesStatus == [][C24_Step]_vars

\* the run was interrupted during a send of the first of two jobs
C24_Witness ==
    /\ pc = "interrupted"
    /\ exc = Exc("KeyboardInterrupt", Msg("send", 0))
    /\ cur = 1 /\ Len(pending_rows) = 2
    /\ Len(thread) = 2
    /\ sheet[pending_rows[1]].status = PROCESSING
    /\ sheet[pending_rows[2]].status = PENDING

----------------------------------------------------------------------------
(* C25 *)

\* what ensure_fundamentos_cache raises before it calls create_cache
ConfigurationErrors == {"FileNotFoundError", "ValueError"}

\* C25: with the reference directory absent or without a PDF,
\* ensure_fundamentos_cache raises a configuration error at once:
\* create_cache is not called, no attempt and no delay is made and the run
\* stops; a retry of create_cache is made only after a failure of a type
\* its policy lists, never after a configuration error or a failure to
\* read a file.
C25_Step ==
    /\ fundamentos # "ok" =>
        /\ pc' \in {"ensure_cache", "aborted"}
        /\ cache' = "none" /\ attempt' = 0 /\ waits' = <<>>
        /\ pc' = "aborted" => exc'.type \in ConfigurationErrors
    /\ (pc = "ensure_cache" /\ fundamentos = "ok") =>
        pc' = "create_cache" /\ attempt' = 1 /\ waits' = <<>>
    /\ (pc = "create_cache" /\ exc' # exc) =>
        /\ pc' = "aborted"
        /\ attempt' = attempt /\ waits' = waits
        /\ exc'.type = "RetryError" => attempt = MAX_RETRIES
    /\ (pc = "create_cache" /\ Len(waits') > Len(waits)) =>
        /\ pc' = pc /\ exc' = exc /\ cache' = "none"
        /\ attempt' = attempt + 1
        /\ fundamentos = "ok"

----------------------------------------------------------------------------
(* C26 *)

\* a locator that names a file whose type download_as_pdf has no branch for
Unsupported(url) ==
    Resolvable(url) /\ url.mime \notin {GDOC, PDF, DOCX, TXT}

InSeq(x, seq) == \E k \in 1..Len(seq) : seq[k] = x

----------------------------------------------------------------------------
(* C27 *)

\* status is the prefix 'ERROR: ' followed by the first 50 characters of msg
\* (by all of msg when it has no more than 50)
IsErrorOf(status, msg) ==
    /\ status.s = "ERROR: "
    /\ status.m = msg.m
    /\ status.n = IF msg.n > 50 THEN 50 ELSE msg.n

\* C27: the status the handler of a job writes is 'ERROR: ' followed by the
\* first 50 characters of the message of the exception: a message of up to
\* 50 characters is written whole, a longer one is cut after its 50th
\* character, and no ERROR: status of the worksheet is longer than the
\* prefix plus 50 characters.
C27_Step ==
    /\ pc = "job_except" =>
        \/ sheet' = sheet
        \/ /\ IsErrorOf(sheet'[CurRow].status, exc.msg)
           /\ \A r \in Rows \ {CurRow} : sheet'[r] = sheet[r]
    /\ \A r \in Rows :
        sheet[r].status.s = "ERROR: " =>
            sheet[r].status.n <= 50 /\ sheet[r].status.m # ""

C27_ErrorStatusTruncated == [][C27_Step]_vars

\* two failed jobs: a message of 60 characters written cut to 50, and one
\* of 17 characters written whole
C27_Witness ==
    /\ pc = "done"
    /\ \E r1, r2 \in Selected :
        /\ sheet[r1].status =
               [s |-> "ERROR: ", m |-> NoDocumentsError.msg.m, n |-> 50]
        /\ NoDocumentsError.msg.n = 60
        /\ sheet[r2].status = [s |-> "ERROR: ", m |-> QuotaMsg.m, n |-> 17]

----------------------------------------------------------------------------
(* C28 *)

\* C28 (not stated): "converting the same text twice yields identical
\* PDFs" compares create_pdf_from_text(t) with create_pdf_from_text(t); as an
\* operator of the text alone the two are equal in every model.

----------------------------------------------------------------------------
(* C29 *)

RoleIndex(name) == CHOOSE k \in 1..Len(Roles) : Roles[k] = name

\* paths lists files of job r only, each once, in the order of the roles
OwnInRoleOrder(paths, r) ==
    /\ \A i \in 1..Len(paths) : paths[i].dir = r
    /\ \A i, j \in 1..Len(paths) :
        i < j => RoleIndex(paths[i].name) < RoleIndex(paths[j].name)

\* the paths of the files of temp_dir d that a download completed
Completed(d) ==
    { output_path(d, f.name) :
        f \in { g \in temp_dirs[d] : g.data.as # "partial" } }

\* C29: the files attached to the first step of a job are the files its own
\* downloads completed: each once, in the order of the roles, as many as
\* downloads succeeded for the job, all in the temp_dir of the job; a file
\* of an earlier job or of a failed download is never attached.
C29_OwnDocumentsAttached ==
    /\ \A k \in 1..Len(thread) :
        thread[k].step = 1 =>
            /\ OwnInRoleOrder(thread[k].parts, thread[k].row)
            /\ Len(thread[k].parts) = calls[thread[k].row].pdf
            /\ thread[k].parts # <<>>
    /\ (pc = "send" /\ step = 1) =>
        /\ OwnInRoleOrder(message.parts, CurRow)
        /\ Len(message.parts) = calls[CurRow].pdf
        /\ {message.parts[i] : i \in 1..Len(message.parts)} = Completed(CurRow)
    /\ \A k \in 1..Len(patient_pdfs) : patient_pdfs[k].dir \in TempDirs

\* the first step of the second job: the first job had two documents, of
\* the second job the download of the transcript failed
C29_Witness ==
    /\ pc = "send" /\ step = 1 /\ cur = 2
    /\ Len(thread) = 6
    /\ thread[1].parts = <<output_path(pending_rows[1], "transcript"),
                           output_path(pending_rows[1], "summary")>>
    /\ sheet0[CurRow].links["transcript"] = DocUrl
    /\ message.parts = <<output_path(CurRow, "summary")>>

----------------------------------------------------------------------------
(* C30 *)

\* C30: the worksheet is scanned once in a run and the list it returned is
\* fixed; the list names no row twice and is gone through once, from its
\* first row to its last; mark_processing_start is called at most once for
\* a row, and for a row whose processing has ended (COMPLETED, an ERROR
\* status, or a status write that failed) no call is made and no cell is
\* written again.
C30_Step ==
    /\ pc = "get_pending" => ~scanned /\ pending_rows = <<>>
    /\ scanned => scanned' /\ pending_rows' = pending_rows
    /\ \A i, j \in 1..Len(pending_rows) :
        pending_rows[i] = pending_rows[j] => i = j
    /\ cur' \in {cur, cur + 1}
    /\ \A r \in Rows : calls[r].mark <= 1
    /\ pc' = "job_start" =>
        /\ calls'[pending_rows'[cur']].mark = 0
        /\ calls'[pending_rows'[cur']].term = 0
    /\ \A r \in Rows :
        Finished(r) => calls'[r] = calls[r] /\ sheet'[r] = sheet[r]

C30_EachJobOnce == [][C30_Step]_vars

\* the run is over; of one job both the start write and the final status
\* write failed: the row still shows PENDING PROCESSING and was started once
C30_Witness ==
    /\ pc = "done"
    /\ \E r \in Selected :
        /\ sheet[r].status = PENDING
        /\ calls[r].mark = 1 /\ calls[r].term = 1
        /\ calls[r].pdf > 0

----------------------------------------------------------------------------
(* C31 *)

\* C31: the status of a job becomes COMPLETED only by write_grading_results
\* called for that job, after every step of its review was answered and the
\* call of upload_file for its deliverable returned, and together with the
\* result range of the row holding the link of that deliverable, the token
\* counts of the last answer and the times; and a job whose status is
\* COMPLETED keeps that status for the rest of the run.
C31_Step ==
    /\ (pc' = "write_results" /\ pc # "write_results") =>
        /\ pc = "upload"
        /\ faults' = faults
        /\ calls'[CurRow].upload = 1
        /\ calls[CurRow].answered = Len(flow_steps)
    /\ \A r \in Selected :
        /\ (sheet[r].status # COMPLETED /\ sheet'[r].status = COMPLETED) =>
            /\ pc = "write_results" /\ r = CurRow
            /\ calls[r].answered = Len(flow_steps)
            /\ response.row = r /\ response.step = Len(flow_steps)
            /\ calls[r].upload = 1
            /\ sheet'[r].result =
                 [grading_url |-> [row |-> r, step |-> Len(flow_steps)],
                  tokens_in |-> response.input,
                  tokens_out |-> response.output,
                  end |-> clock, duration |-> sheet'[r].result.duration]
            /\ sheet'[r].start # NoTime
        /\ sheet[r].status = COMPLETED => sheet'[r].status = COMPLETED

C31_CompletedLast == [][C31_Step]_vars

\* the run is over with two jobs: the first is COMPLETED with its results
\* and was left alone while the second went through its review and failed
\* to save its results
C31_Witness ==
    /\ pc = "done"
    /\ Len(pending_rows) = 2
    /\ sheet[pending_rows[1]].status = COMPLETED
    /\ sheet[pending_rows[1]].result # NoResult
    /\ sheet[pending_rows[2]].status = ERROR_SAVING
    /\ calls[pending_rows[2]].answered = Len(flow_steps)

----------------------------------------------------------------------------
(* C32 *)

\* the rows the scan leaves out: the first row, a row with fewer than
\* COL_STATUS cells, and a row whose trimmed status cell is not the sentinel
NotSelected ==
    { r \in Rows :
        \/ r = 1
        \/ sheet0[r].cols < COL_STATUS
        \/ strip(sheet0[r].status).s # "PENDING PROCESSING" }

\* C32: nothing is written before the scan; and the header row, every row
\* with fewer than 3 columns and every row whose status cell, trimmed, was
\* not 'PENDING PROCESSING' at the scan hold throughout the run the cells
\* they held when it began, are not in the list of the scan, and no
\* operation of the run is called for them.
C32_OnlySelectedWritten ==
    /\ ~scanned => sheet = sheet0
    /\ \A r \in NotSelected :
        /\ sheet[r] = sheet0[r]
        /\ r \notin Selected
        /\ NoJobCalls(calls[r]) /\ calls[r].term = 0

\* the run is over: it completed the job of one row, and the other row has
\* fewer than 3 columns and is as it was
C32_Witness ==
    /\ pc = "done"
    /\ \E r \in NotSelected \ {1} :
        sheet0[r].cols < COL_STATUS /\ sheet[r] = ShortRow
    /\ \E r \in Selected :
        sheet[r].status = COMPLETED /\ sheet[r].result # NoResult

----------------------------------------------------------------------------
(* C33 *)

\* the one call of mark_processing_start for row r failed to write
MarkFailed(c, r) == c[r].mark = 1 /\ ~c[r].markOk

\* C33: mark_processing_start raises nothing: after it, with its write made
\* or failed, process_single_case is at its first document with no
\* exception and no status call made for the job; a failed write leaves the
\* worksheet as it was, and later steps do not depend on it: the job goes
\* through normalization, review and write-back, its row never shows
\* PROCESSING, and the only status written for it is the final one.
C33_Step ==
    /\ pc = "job_start" =>
        /\ pc' = "doc" /\ roleIdx' = 1 /\ exc' = exc
        /\ calls'[CurRow].mark = 1
        /\ calls'[CurRow].seterr = 0 /\ calls'[CurRow].term = 0
        /\ MarkFailed(calls', CurRow) <=> faults' = faults + 1
        /\ MarkFailed(calls', CurRow) => sheet' = sheet
        /\ ~MarkFailed(calls', CurRow) => sheet'[CurRow].status = PROCESSING
    /\ \A r \in Rows :
        MarkFailed(calls, r) =>
            /\ sheet[r].status # PROCESSING
            /\ sheet'[r].status # PROCESSING
            /\ sheet'[r].status # sheet[r].status =>
                /\ pc \in {"write_results", "job_except"}
                /\ calls'[r].term = 1 /\ calls'[r].termOk
                /\ sheet'[r].status.s = "ERROR: " =>
                    sheet'[r].status = ErrorStatus(exc) /\ exc # NoExc

C33_StartFailureSwallowed == [][C33_Step]_vars

\* the run is over; the start write of a job failed and nothing else did:
\* the job is COMPLETED with its results
C33_Witness ==
    /\ pc = "done"
    /\ faults = 1
    /\ \E r \in Selected :
        /\ MarkFailed(calls, r)
        /\ sheet[r].status = COMPLETED
        /\ sheet[r].result # NoResult
        /\ calls[r].answered = Len(flow_steps)

----------------------------------------------------------------------------
(* C34 *)

\* the messages of row r in the thread are its steps 1..n, in order
StepsFromOne(r) ==
    \A i \in 1..Len(RowThread(r)) : RowThread(r)[i].step = i

\* C34: when the review of a job has failed at step k, the session is
\* still set and the thread holds the k-1 messages answered for that job;
\* execute_grading_flow called for the next job raises nothing at its
\* entry and goes to step 1, whose message carries the PDFs of that job,
\* all of its own temp_dir; and every answer is appended to that thread,
\* behind the messages of the failed job.
C34_Step ==
    \A k \in 2..Len(pending_rows) :
        LET failed == pending_rows[k - 1]
            r == pending_rows[k]
        IN  (cur = k /\ ReviewFailed(failed)) =>
                /\ chat_session /\ chat_session'
                /\ Len(RowThread(failed)) = calls[failed].answered
                /\ calls[failed].send \in {calls[failed].answered,
                                           calls[failed].answered + 1}
                /\ StepsFromOne(failed) /\ StepsFromOne(r)
                /\ (pc = "check_docs" /\ patient_pdfs # <<>>) =>
                    /\ pc' = "fetch_prompt" /\ step' = 1 /\ exc' = exc
                    /\ calls'[r].flow = 1
                    /\ RowThread(r) = <<>>
                /\ (pc = "send" /\ step = 1) =>
                    /\ message.parts = patient_pdfs
                    /\ message.parts # <<>>
                    /\ \A i \in 1..Len(message.parts) :
                        message.parts[i].dir = r
                /\ thread' # thread =>
                    /\ pc = "send"
                    /\ thread' = Append(thread, thread'[Len(thread')])
                    /\ thread'[Len(thread')].row = r
                    /\ thread'[Len(thread')].step = step
                    /\ thread'[Len(thread')].parts = message.parts

C34_SessionSurvivesFailure == [][C34_Step]_vars

\* the review of the first job failed at its third step; the first step of
\* the second job was answered with its files attached, on the thread that
\* holds the two messages of the first job
C34_Witness ==
    /\ cur = 2 /\ pc = "fetch_prompt" /\ step = 2
    /\ ReviewFailed(pending_rows[1])
    /\ Len(thread) = 3
    /\ thread[1].row = pending_rows[1] /\ thread[2].row = pending_rows[1]
    /\ thread[3].row = pending_rows[2] /\ thread[3].step = 1
    /\ thread[3].parts # <<>>

====
